---- MODULE Spec2Model ----
(***************************************************************************)
(* A model of package gtask (Group.Go, Group.Wait, Group.runTask): a task  *)
(* group with an optional concurrency bound (a buffered channel used as a  *)
(* counting semaphore), a sync.WaitGroup as join barrier, a mutex that     *)
(* guards the counters and the error list, and a sync.Once for the lazy    *)
(* setup.  Every goroutine is a process: callers run Go and Wait, each     *)
(* launched unit runs runTask.  One action is one step between two         *)
(* synchronisation points of the code.                                     *)
(*                                                                         *)
(* Package utils is modelled next to it, each part with variables of its   *)
(* own and a specification of its own: LocalCache (a map with timestamps   *)
(* behind a RWMutex, and a singleflight.Group for GetOrSet), CallbackGo,   *)
(* OnceErr and Chunk.  So is package logger: the close function returned  *)
(* by NewLogger (a sync.Once around the closers), Handle of DefaultHandler *)
(* and StdHandler (a mutex per handler around the write), and Handle of    *)
(* MultiHandler (a loop over the child handlers).                          *)
(***************************************************************************)
EXTENDS Integers, Sequences, FiniteSets, TLC

\* ------------------------------------------------------------------ bounds
MaxUnits == 2          \* Go calls over the life of one Group
MaxConcurrent == 1     \* largest configured Concurrent

ConcurrentValues == {-1} \cup (0..MaxConcurrent)
Kinds == {"ok", "err", "panic"}

VARIABLES
    Concurrent,     \* Group.Concurrent
    AllowSomeFail,  \* Group.AllowSomeFail
    wg,             \* counter of Group.wg
    semaphore,      \* Group.semaphore: nil, or a buffered channel
    errors,         \* Group.errors
    successCount,   \* Group.successCount
    totalTasks,     \* Group.totalTasks
    once,           \* Group.once: "new", "running" (f executing), "done"
    units,          \* one record per Go call: its task's outcome and its
                    \* message, where the call (then the unit's goroutine)
                    \* is, whether errors was non-empty when the call began,
                    \* how many times the task body was invoked, and the
                    \* unit whose task body made the call (0: none)
    wait            \* the Wait call: where it is, the units launched before
                    \* it began, its locals and its result, whether it read
                    \* g.errors outside the mutex, and (for a caller that
                    \* keeps it) the result of the caller's previous Wait

\* package utils, LocalCache
VARIABLES
    now,            \* the clock read by time.Now() and time.Since()
    expire,         \* LocalCache.expire
    items,          \* LocalCache.items: per key, no entry or Data and Timestamp
    flights,        \* LocalCache.group: per key, the GetOrSet call whose
                    \* function is in flight, or 0
    callers,        \* one record per GetOrSet call: key, what its fn returns,
                    \* where the call is, the flight it shares, its result,
                    \* and how many times its fn was executed
    lastOp,         \* per key, the most recent Set, Delete or Clear on it
    got,            \* the result of a Get call, while it is the most recent
                    \* call on the cache: with the clock at that moment and
                    \* the GetOrSet call that returned just before it, if any
    prevOp          \* the GetOrSet call that has just returned, if any

cacheVars == <<now, expire, items, flights, callers, lastOp, got, prevOp>>

\* package utils, CallbackGo
VARIABLES
    panicHandler,   \* the package variable panicHandler: "nil" or a handler
    cbs,            \* one record per CallbackGo call: what fn does, where the
                    \* goroutine is, whether it is panicking, and how many
                    \* times callback has run
    handled         \* the values panicHandler was invoked with, in order

cbVars == <<panicHandler, cbs, handled>>

\* package utils, OnceErr
VARIABLES
    oeOnce,         \* OnceErr.once: "new", "running", "done"
    oeErr,          \* OnceErr.err
    setters         \* one record per SetError call: its argument, where the
                    \* call is, and whether it ran the function given to Do

onceErrVars == <<oeOnce, oeErr, setters>>

\* package utils, Chunk
VARIABLES
    chunkIn,        \* the arguments of the Chunk call
    chunkOut,       \* the call's result, once it has returned
    chunkRun        \* the call followed statement by statement: where it
                    \* is, the loop variable i, and result

chunkVars == <<chunkIn, chunkOut, chunkRun>>

\* package logger, NewLogger's close function
VARIABLES
    ctx,            \* the context given to NewLogger: "nil", "live", "cancelled"
    closeFns,       \* closeFns: per closer, what it returns, where its run
                    \* is, and how many times it was run
    closeOnce,      \* closeOnce: "new", "running", "done"
    closeErr,       \* closeErr
    closeCalls      \* one record per call of closeWritersFunc: who calls,
                    \* where the call is, and what it returned

closeVars == <<ctx, closeFns, closeOnce, closeErr, closeCalls>>

\* package handler, DefaultHandler and StdHandler
VARIABLES
    hs,             \* the handlers on one writer: for each, the handler
                    \* it was derived from (0: made by the constructor)
    hmu,            \* per handler, the Handle call that holds its mu, or 0
    hcalls          \* one record per Handle call: the handler and where
                    \* the call is

handlerVars == <<hs, hmu, hcalls>>

\* package handler, MultiHandler
VARIABLES
    mhIn,           \* MultiHandler.handlers: for each child, whether it is
                    \* enabled for the record's level and whether its
                    \* Handle returns an error
    mhOut           \* the Handle call's result, once it has returned: the
                    \* children the record was delivered to, and the error

multiVars == <<mhIn, mhOut>>

loggerVars == <<closeVars, handlerVars, multiVars>>

\* Everything outside package gtask.
lib == <<cacheVars, cbVars, onceErrVars, chunkVars, loggerVars>>

\* Package gtask.
gtaskVars == <<Concurrent, AllowSomeFail, wg, semaphore, errors, successCount,
               totalTasks, once, units, wait>>

\* Everything outside LocalCache, CallbackGo, OnceErr, Chunk.
notCache == <<gtaskVars, cbVars, onceErrVars, chunkVars, loggerVars>>
notCallback == <<gtaskVars, cacheVars, onceErrVars, chunkVars, loggerVars>>
notOnceErr == <<gtaskVars, cacheVars, cbVars, chunkVars, loggerVars>>
notChunk == <<gtaskVars, cacheVars, cbVars, onceErrVars, loggerVars>>
utils == <<cacheVars, cbVars, onceErrVars, chunkVars>>
notClose == <<gtaskVars, utils, handlerVars, multiVars>>
notHandler == <<gtaskVars, utils, closeVars, multiVars>>
notMulti == <<gtaskVars, utils, closeVars, handlerVars>>

vars == <<Concurrent, AllowSomeFail, wg, semaphore, errors, successCount,
          totalTasks, once, units, wait, lib>>

group == <<wg, semaphore, errors, successCount, totalTasks, once>>
config == <<Concurrent, AllowSomeFail>>

\* ------------------------------------------------------------ data values
\* Strings are sequences of tokens; "" is the empty sequence.
NilChan == [made |-> FALSE, cap |-> 0, len |-> 0]
MakeChan(n) == [made |-> TRUE, cap |-> n, len |-> 0]

NilError == [isNil |-> TRUE, msg |-> <<>>]
NewError(m) == [isNil |-> FALSE, msg |-> m]

\* What a caller keeps of its previous Wait call: the result, and the number
\* of Go calls begun before it.
NoPrev == [valid |-> FALSE, sc |-> 0, err |-> NilError, gos |-> 0]

\* No Wait call yet.
NoWait == [pc |-> "idle", seen |-> {}, sc |-> 0, n |-> 0, err |-> NilError,
           bare |-> FALSE, gos |-> 0, prev |-> NoPrev]

\* The error a task of kind "err" returns, and the value a task of kind
\* "panic" panics with.
TaskMsg == <<"E">>
Payload == <<"P">>

\* Mutant: the recovered value alone, without the marker.
PanicMsgBare(r) == r

\* fmt.Errorf("task panic: %v", r)
PanicMsg(r) == <<"task panic: ">> \o r

UnitIds == 1..Len(units)

\* Where a Go call is before it returns, and where a launched unit is.
GoCallSt == {"go_once", "go_once_f", "go_check", "go_addTotal", "go_wgAdd",
             "go_launch", "go_spawn"}
LaunchedSt == {"spawned", "body", "recorded", "wgdone", "finished"}
RecordedSt == {"recorded", "wgdone", "finished"}

\* ---------------------------------------------------------------- channel
\* Mutant: a send that never blocks on a full channel.
CanSendFull(ch) == ch.made

\* A send on a nil channel blocks forever; on a buffered one, while full.
CanSend(ch) == ch.made /\ ch.len < ch.cap
\* A receive on a nil channel blocks forever; on a buffered one, while empty.
CanRecv(ch) == ch.made /\ ch.len > 0

\* ------------------------------------------------ package utils at rest
Keys == {"k1", "k2"}
Values == {"v1", "v2"}

\* No entry for a key in lc.items.
NoItem == [exists |-> FALSE, Data |-> "nil", Timestamp |-> 0]
\* Nothing has been done to a key.
NoOp == [op |-> "none", v |-> "nil", t |-> 0]
\* No Get call yet.
NoPrevOp == [op |-> "none", c |-> 0]
NoGet == [valid |-> FALSE, key |-> "k1", v |-> "nil", ok |-> FALSE, at |-> 0,
          after |-> NoPrevOp]

\* return &LocalCache{items: make(map[string]*CacheItem), expire: expire}
NewLocalCache(e) ==
    /\ now = 0
    /\ expire = e
    /\ items = [k \in Keys |-> NoItem]
    /\ flights = [k \in Keys |-> 0]
    /\ callers = <<>>
    /\ lastOp = [k \in Keys |-> NoOp]
    /\ got = NoGet
    /\ prevOp = NoPrevOp

\* A LocalCache that nobody uses.
CacheIdle == NewLocalCache(0)

\* No handler registered, no CallbackGo call.
CallbackIdle ==
    /\ panicHandler = "nil"
    /\ cbs = <<>>
    /\ handled = <<>>

\* The zero value of OnceErr, which nobody uses.
OnceErrIdle ==
    /\ oeOnce = "new"
    /\ oeErr = "nil"
    /\ setters = <<>>

\* No Chunk call.
NoChunkResult == [done |-> FALSE, result |-> <<>>]
NoChunkRun == [pc |-> "none", i |-> 0, result |-> <<>>]
ChunkIdle ==
    /\ chunkIn = [data |-> <<>>, size |-> 1]
    /\ chunkOut = NoChunkResult
    /\ chunkRun = NoChunkRun

\* No logger, no handler.
\* (err is 0 for nil, or i for the error returned by child i.)
NoMultiResult == [done |-> FALSE, delivered |-> <<>>, err |-> 0]

CloseIdle ==
    /\ ctx = "nil"
    /\ closeFns = <<>>
    /\ closeOnce = "new"
    /\ closeErr = NilError
    /\ closeCalls = <<>>

HandlerIdle ==
    /\ hs = <<>>
    /\ hmu = <<>>
    /\ hcalls = <<>>

MultiIdle ==
    /\ mhIn = <<>>
    /\ mhOut = NoMultiResult

LoggerIdle == CloseIdle /\ HandlerIdle /\ MultiIdle

LibIdle ==
    /\ CacheIdle
    /\ CallbackIdle
    /\ OnceErrIdle
    /\ ChunkIdle
    /\ LoggerIdle

\* ------------------------------------------------------------------- Init
Init ==
    /\ Concurrent \in ConcurrentValues
    /\ AllowSomeFail \in BOOLEAN
    /\ wg = 0
    /\ semaphore = NilChan
    /\ errors = <<>>
    /\ successCount = 0
    /\ totalTasks = 0
    /\ once = "new"
    /\ units = <<>>
    /\ wait = NoWait
    /\ LibIdle

\* A Group that nobody uses.
GroupIdle ==
    /\ Concurrent = 0
    /\ AllowSomeFail = FALSE
    /\ wg = 0
    /\ semaphore = NilChan
    /\ errors = <<>>
    /\ successCount = 0
    /\ totalTasks = 0
    /\ once = "new"
    /\ units = <<>>
    /\ wait = NoWait

\* -------------------------------------------------------------- helpers
SetSt(u, s) == [units EXCEPT ![u].st = s]
At(u, s) == u \in UnitIds /\ units[u].st = s

\* getHasFailed
getHasFailed == Len(errors) > 0

\* Mutant: addError without the mutex, an append to a stale copy of the
\* slice that loses the failures recorded meanwhile.
addErrorLost(err) == <<err>>

\* addError
addError(err) == Append(errors, err)

\* ------------------------------------------------------------- Group.Go
\* A goroutine begins g.Go(task); the task's outcome is k, and m is the
\* message of the error it returns or the value it panics with.
StartGoMsg(k, m) ==
    /\ units' = Append(units, [kind |-> k, st |-> "go_once",
                               sawFail |-> Len(errors) > 0,
                               msg |-> m, runs |-> 0, parent |-> 0])
    /\ UNCHANGED <<group, config, lib, wait>>

\* The tasks of the tests: one error message, one panic value.
DefaultMsg(k) ==
    IF k = "err" THEN TaskMsg ELSE IF k = "panic" THEN Payload ELSE <<>>

StartGo(k) == StartGoMsg(k, DefaultMsg(k))

\* Mutant: a flag tested and set without mutual exclusion in place of the
\* sync.Once: every caller that arrives before f has returned runs f.
GoOnceRacy(u) ==
    /\ At(u, "go_once")
    /\ IF once # "done"
         THEN /\ once' = "running"
              /\ units' = SetSt(u, "go_once_f")
         ELSE /\ once' = once
              /\ units' = SetSt(u, "go_check")
    /\ UNCHANGED <<wg, semaphore, errors, successCount, totalTasks, config, lib,
                   wait>>

\* g.once.Do(f): the first caller runs f, a caller that arrives while f runs
\* blocks until it has returned, a later caller passes.
GoOnce(u) ==
    /\ At(u, "go_once")
    /\ once # "running"
    /\ IF once = "new"
         THEN /\ once' = "running"
              /\ units' = SetSt(u, "go_once_f")
         ELSE /\ once' = once
              /\ units' = SetSt(u, "go_check")
    /\ UNCHANGED <<wg, semaphore, errors, successCount, totalTasks, config, lib,
                   wait>>

\* The function passed to once.Do.
onceSemaphore == IF Concurrent > 0 THEN MakeChan(Concurrent) ELSE semaphore

GoOnceF(u) ==
    /\ At(u, "go_once_f")
    /\ errors' = <<>>
    /\ semaphore' = onceSemaphore
    /\ once' = "done"
    /\ units' = SetSt(u, "go_check")
    /\ UNCHANGED <<wg, successCount, totalTasks, config, lib, wait>>

\* Mutant: the check made whatever the policy flag says.
failFastIgnoresPolicy == Len(errors) > 0

\* Mutant: the policy flag read the wrong way round.
failFastInverted == AllowSomeFail /\ Len(errors) > 0

\* if !g.AllowSomeFail && g.getHasFailed() { return }
failFast == ~AllowSomeFail /\ getHasFailed

\* Mutant: the unit is counted before the check is made.
GoCheckCountsFirst(u) ==
    /\ At(u, "go_check")
    /\ totalTasks' = totalTasks + 1
    /\ units' = SetSt(u, IF failFast THEN "denied" ELSE "go_wgAdd")
    /\ UNCHANGED <<wg, semaphore, errors, successCount, once, config, lib, wait>>

GoCheck(u) ==
    /\ At(u, "go_check")
    /\ units' = SetSt(u, IF failFast THEN "denied" ELSE "go_addTotal")
    /\ UNCHANGED <<group, config, lib, wait>>

\* Mutant: the unit counted twice.
GoAddTotalTwice(u) ==
    /\ At(u, "go_addTotal")
    /\ totalTasks' = totalTasks + 2
    /\ units' = SetSt(u, "go_wgAdd")
    /\ UNCHANGED <<wg, semaphore, errors, successCount, once, config, lib, wait>>

\* g.addTotalTasks()
GoAddTotal(u) ==
    /\ At(u, "go_addTotal")
    /\ totalTasks' = totalTasks + 1
    /\ units' = SetSt(u, "go_wgAdd")
    /\ UNCHANGED <<wg, semaphore, errors, successCount, once, config, lib, wait>>

\* Mutant: the unit added twice to the pending count.
GoWgAddTwice(u) ==
    /\ At(u, "go_wgAdd")
    /\ wg' = wg + 2
    /\ units' = SetSt(u, "go_launch")
    /\ UNCHANGED <<semaphore, errors, successCount, totalTasks, once, config, lib,
                   wait>>

\* g.wg.Add(1)
GoWgAdd(u) ==
    /\ At(u, "go_wgAdd")
    /\ wg' = wg + 1
    /\ units' = SetSt(u, "go_launch")
    /\ UNCHANGED <<semaphore, errors, successCount, totalTasks, once, config, lib,
                   wait>>

\* if g.Concurrent == 0 { go g.runTask(task); return }
GoUnbounded(u) ==
    /\ At(u, "go_launch")
    /\ Concurrent = 0
    /\ units' = SetSt(u, "spawned")
    /\ UNCHANGED <<group, config, lib, wait>>

\* Mutant: the send left out: the goroutine is created at once.
GoAcquireSkipped(u) ==
    /\ At(u, "go_launch")
    /\ Concurrent # 0
    /\ units' = SetSt(u, "spawned")
    /\ UNCHANGED <<group, config, lib, wait>>

\* g.semaphore <- struct{}{}
GoAcquire(u) ==
    /\ At(u, "go_launch")
    /\ Concurrent # 0
    /\ CanSend(semaphore)
    /\ semaphore' = [semaphore EXCEPT !.len = @ + 1]
    /\ units' = SetSt(u, "go_spawn")
    /\ UNCHANGED <<wg, errors, successCount, totalTasks, once, config, lib, wait>>

\* Mutant: the fail-fast check evaluated again before the launch; a unit
\* it stops gives its token back and is dropped.
GoSpawnRecheck(u) ==
    /\ At(u, "go_spawn")
    /\ IF ~AllowSomeFail /\ Len(errors) > 0
         THEN /\ units' = SetSt(u, "denied")
              /\ semaphore' = [semaphore EXCEPT !.len = @ - 1]
              /\ wg' = wg - 1
         ELSE /\ units' = SetSt(u, "spawned")
              /\ UNCHANGED <<semaphore, wg>>
    /\ UNCHANGED <<errors, successCount, totalTasks, once, config, lib, wait>>

\* go func() { defer func() { <-g.semaphore }(); g.runTask(task) }()
GoSpawn(u) ==
    /\ At(u, "go_spawn")
    /\ units' = SetSt(u, "spawned")
    /\ UNCHANGED <<group, config, lib, wait>>

\* ---------------------------------------------------------- Group.runTask
\* err := task(): the task body begins (and signals that it runs).
Invoke(u) ==
    /\ At(u, "spawned")
    /\ units' = [units EXCEPT ![u].st = "body", ![u].runs = @ + 1]
    /\ UNCHANGED <<group, config, lib, wait>>

\* Mutant: addSuccessCount reached on every return of the task.
recordSuccessAlways(k) == IF k = "panic" THEN successCount ELSE successCount + 1

\* Mutant: runTask without the deferred recover records no panic.
recordErrorsNoRecover(u, k) ==
    IF k = "err" THEN Append(errors, [id |-> u, msg |-> units[u].msg]) ELSE errors

\* What runTask records for a task body that ends with outcome k:
\* addSuccessCount on a nil error, addError(err) on an error, and the
\* deferred recover's addError(fmt.Errorf("task panic: %v", r)) on a panic.
recordSuccess(k) == IF k = "ok" THEN successCount + 1 ELSE successCount

recordErrors(u, k) ==
    IF k = "err" THEN addError([id |-> u, msg |-> units[u].msg])
    ELSE IF k = "panic" THEN addError([id |-> u, msg |-> PanicMsg(units[u].msg)])
    ELSE errors

\* Mutant: a task that returned an error is invoked a second time before
\* its failure is recorded.
RecordRetry(u) ==
    /\ At(u, "body")
    /\ IF units[u].kind = "err" /\ units[u].runs < 2
         THEN /\ units' = SetSt(u, "spawned")
              /\ UNCHANGED <<successCount, errors>>
         ELSE /\ successCount' = recordSuccess(units[u].kind)
              /\ errors' = recordErrors(u, units[u].kind)
              /\ units' = SetSt(u, "recorded")
    /\ UNCHANGED <<wg, semaphore, totalTasks, once, config, lib, wait>>

\* The task body ends (nil, an error or a panic) and runTask records it.
Record(u) ==
    /\ At(u, "body")
    /\ successCount' = recordSuccess(units[u].kind)
    /\ errors' = recordErrors(u, units[u].kind)
    /\ units' = SetSt(u, "recorded")
    /\ UNCHANGED <<wg, semaphore, totalTasks, once, config, lib, wait>>

\* Mutant: g.wg.Done() called at the end of runTask instead of deferred:
\* a panicking task skips it.
WgDoneNotDeferred(u) ==
    /\ At(u, "recorded")
    /\ wg' = IF units[u].kind = "panic" THEN wg ELSE wg - 1
    /\ units' = SetSt(u, IF Concurrent = 0 THEN "finished" ELSE "wgdone")
    /\ UNCHANGED <<semaphore, errors, successCount, totalTasks, once, config, lib,
                   wait>>

\* Mutant: the deferred calls in the other order, the token given back
\* together with g.wg.Done().
WgDoneReleasesToken(u) ==
    /\ At(u, "recorded")
    /\ wg' = wg - 1
    /\ semaphore' = IF Concurrent = 0 THEN semaphore
                    ELSE [semaphore EXCEPT !.len = @ - 1]
    /\ units' = SetSt(u, "finished")
    /\ UNCHANGED <<errors, successCount, totalTasks, once, config, lib, wait>>

\* defer g.wg.Done()
WgDone(u) ==
    /\ At(u, "recorded")
    /\ wg' = wg - 1
    /\ units' = SetSt(u, IF Concurrent = 0 THEN "finished" ELSE "wgdone")
    /\ UNCHANGED <<semaphore, errors, successCount, totalTasks, once, config, lib,
                   wait>>

\* Mutant: the unit's goroutine ends without receiving from the semaphore.
ReleaseLeak(u) ==
    /\ At(u, "wgdone")
    /\ units' = SetSt(u, "finished")
    /\ UNCHANGED <<group, config, lib, wait>>

\* defer func() { <-g.semaphore }()
Release(u) ==
    /\ At(u, "wgdone")
    /\ CanRecv(semaphore)
    /\ semaphore' = [semaphore EXCEPT !.len = @ - 1]
    /\ units' = SetSt(u, "finished")
    /\ UNCHANGED <<wg, errors, successCount, totalTasks, once, config, lib, wait>>

\* ------------------------------------------------------------ Group.Wait
\* Wait writes nothing to the group, so concurrent Wait calls cannot affect
\* one another or any Go call: one waiting goroutine, which may call Wait
\* again and again, shows what any number of them would.

\* The units whose Go call has returned after launching them.
LaunchedUnits == {u \in UnitIds : units[u].st \in LaunchedSt}

\* A goroutine begins g.Wait().
StartWait ==
    /\ wait.pc \in {"idle", "wait_ret"}
    /\ wait' = [NoWait EXCEPT !.pc = "wait_wg", !.seen = LaunchedUnits]
    /\ UNCHANGED <<group, config, lib, units>>

\* Mutant: Wait without g.wg.Wait().
wgWaitNoBlock == TRUE

\* g.wg.Wait() blocks until the counter is zero.
wgWaitReady == wg = 0

WaitWg ==
    /\ wait.pc = "wait_wg"
    /\ wgWaitReady
    /\ wait' = [wait EXCEPT !.pc = "wait_stats"]
    /\ UNCHANGED <<group, config, lib, units>>

\* successCount, _, errors := g.getStats()
\* (errors is a slice header: its length is fixed here.)
WaitStats ==
    /\ wait.pc = "wait_stats"
    /\ wait' = [wait EXCEPT !.pc = "wait_join",
                            !.sc = successCount,
                            !.n = Len(errors)]
    /\ UNCHANGED <<group, config, lib, units>>

\* joinErrors: the loop over g.errors.
RECURSIVE joinLoop(_, _, _)
joinLoop(errs, i, errMsg) ==
    IF i > Len(errs) THEN errMsg
    ELSE joinLoop(errs, i + 1,
                  (IF errMsg # <<>> THEN errMsg \o <<"; ">> ELSE errMsg)
                      \o errs[i].msg)

\* joinErrors reads g.errors as it is now, without the mutex.
joinErrors ==
    IF Len(errors) = 0 THEN NilError ELSE NewError(joinLoop(errors, 1, <<>>))

\* Mutant: Wait without its test for an empty list, calling a joinErrors
\* without one either.
WaitJoinNoNilCheck ==
    /\ wait.pc = "wait_join"
    /\ wait' = [wait EXCEPT !.pc = "wait_ret",
                            !.err = NewError(joinLoop(errors, 1, <<>>)),
                            !.bare = TRUE]
    /\ UNCHANGED <<group, config, lib, units>>

\* Mutant: Wait hands the failures over and empties the list.
WaitJoinDrain ==
    /\ wait.pc = "wait_join"
    /\ wait' = [wait EXCEPT !.pc = "wait_ret",
                            !.err = IF wait.n = 0 THEN NilError
                                    ELSE joinErrors,
                            !.bare = wait.n # 0]
    /\ errors' = <<>>
    /\ UNCHANGED <<wg, semaphore, successCount, totalTasks, once, config, lib, units>>

\* if len(errors) == 0 { return successCount, nil }
\* return successCount, g.joinErrors()
\* Wait calls joinErrors after getStats has unlocked g.mu, and joinErrors
\* does not lock it.
WaitJoin ==
    /\ wait.pc = "wait_join"
    /\ wait' = [wait EXCEPT !.pc = "wait_ret",
                            !.err = IF wait.n = 0 THEN NilError
                                    ELSE joinErrors,
                            !.bare = wait.n # 0]
    /\ UNCHANGED <<group, config, lib, units>>

\* ------------------------------------------------------------- processes
\* Go up to the launch, which differs with Concurrent.
GoAdmitStep(u) ==
    \/ GoOnce(u)
    \/ GoOnceF(u)
    \/ GoCheck(u)
    \/ GoAddTotal(u)
    \/ GoWgAdd(u)

GoBoundedStep(u) ==
    \/ GoAcquire(u)
    \/ GoSpawn(u)

GoStep(u) ==
    \/ GoAdmitStep(u)
    \/ GoUnbounded(u)
    \/ GoBoundedStep(u)

UnitStep(u) ==
    \/ Invoke(u)
    \/ Record(u)
    \/ WgDone(u)
    \/ Release(u)

WaitStep ==
    \/ WaitWg
    \/ WaitStats
    \/ WaitJoin

\* Any number of goroutines call Go, and one calls Wait, at any time.
AnyStartGo == Len(units) < MaxUnits /\ \E k \in Kinds : StartGo(k)

Next ==
    \/ AnyStartGo
    \/ StartWait
    \/ \E u \in 1..MaxUnits : GoStep(u)
    \/ \E u \in 1..MaxUnits : UnitStep(u)
    \/ WaitStep

Spec == Init /\ [][Next]_vars

\* ------------------------------------------------- one caller, then Wait
\* No Go call is in progress: the caller's previous call has returned.
NoGoInFlight == \A u \in UnitIds : units[u].st \notin GoCallSt

\* One goroutine calls Go some number of times and then Wait.
SeqStartGo ==
    /\ Len(units) < MaxUnits
    /\ NoGoInFlight
    /\ wait.pc = "idle"
    /\ \E k \in Kinds : StartGo(k)

SeqStartWait ==
    /\ NoGoInFlight
    /\ wait.pc = "idle"
    /\ StartWait

SeqNext ==
    \/ SeqStartGo
    \/ SeqStartWait
    \/ \E u \in 1..MaxUnits : GoStep(u)
    \/ \E u \in 1..MaxUnits : UnitStep(u)
    \/ WaitStep

\* The Go scheduler runs every goroutine that can take a step.
Fairness ==
    /\ \A u \in 1..MaxUnits : WF_vars(GoStep(u)) /\ WF_vars(UnitStep(u))
    /\ WF_vars(WaitStep)

SeqSpec == Init /\ [][SeqNext]_vars /\ Fairness

\* --------------------------------- one caller, Go and Wait in any order
\* The caller begins g.Wait() and keeps the result of its previous call.
WaitAgain ==
    /\ wait.pc \in {"idle", "wait_ret"}
    /\ wait' = [NoWait EXCEPT
                  !.pc = "wait_wg",
                  !.seen = LaunchedUnits,
                  !.gos = Len(units),
                  !.prev = IF wait.pc = "wait_ret"
                             THEN [valid |-> TRUE, sc |-> wait.sc,
                                   err |-> wait.err, gos |-> wait.gos]
                             ELSE NoPrev]
    /\ UNCHANGED <<group, config, lib, units>>

\* One goroutine calls Go and Wait, each any number of times, in any order.
RepStartGo ==
    /\ Len(units) < MaxUnits
    /\ NoGoInFlight
    /\ wait.pc \in {"idle", "wait_ret"}
    /\ \E k \in Kinds : StartGo(k)

RepStartWait == NoGoInFlight /\ WaitAgain

RepeatNext ==
    \/ RepStartGo
    \/ RepStartWait
    \/ \E u \in 1..MaxUnits : GoStep(u)
    \/ \E u \in 1..MaxUnits : UnitStep(u)
    \/ WaitStep

RepeatSpec == Init /\ [][RepeatNext]_vars /\ Fairness

\* ------------------------------ one caller, tasks with various messages
\* The messages of the errors the tasks return: errors.New("") is an error
\* like any other.
Msgs == {<<>>, <<"a">>, <<"b">>}

\* One goroutine calls Go with tasks that succeed, panic, or return an error
\* with a message of Msgs, and then calls Wait.
MsgStartGo ==
    /\ Len(units) < MaxUnits
    /\ NoGoInFlight
    /\ wait.pc = "idle"
    /\ \/ StartGo("ok")
       \/ StartGo("panic")
       \/ \E m \in Msgs : StartGoMsg("err", m)

MsgNext ==
    \/ MsgStartGo
    \/ SeqStartWait
    \/ \E u \in 1..MaxUnits : GoStep(u)
    \/ \E u \in 1..MaxUnits : UnitStep(u)
    \/ WaitStep

MsgSpec == Init /\ [][MsgNext]_vars

\* ------------------------------- TestGoWaitIntegration/DisallowSomeFail
\* The test's three g.Go calls.
TestUnits == 3

\* close(firstTaskDone) / close(secondTaskDone) is the first statement of the
\* task body: the channel is closed once the body runs.
Signalled(u) == u \in UnitIds /\ units[u].st \in {"body", "recorded", "wgdone", "finished"}

TestInit == Init /\ Concurrent = 1 /\ AllowSomeFail = FALSE

\* g.Go(first task: succeeds)
TestGo1 == Len(units) = 0 /\ StartGo("ok")
\* <-firstTaskDone; g.Go(second task: fails)
TestGo2 == Len(units) = 1 /\ NoGoInFlight /\ Signalled(1) /\ StartGo("err")
\* <-secondTaskDone; g.Go(third task)
TestGo3 == Len(units) = 2 /\ NoGoInFlight /\ Signalled(2) /\ StartGo("ok")
\* g.Wait()
TestWait == Len(units) = TestUnits /\ NoGoInFlight /\ wait.pc = "idle" /\ StartWait

TestNext ==
    \/ TestGo1
    \/ TestGo2
    \/ TestGo3
    \/ TestWait
    \/ \E u \in 1..TestUnits : GoAdmitStep(u)
    \/ \E u \in 1..TestUnits : GoBoundedStep(u)
    \/ \E u \in 1..TestUnits : UnitStep(u)
    \/ WaitStep

TestSpec == TestInit /\ [][TestNext]_vars

\* ------------------------------------------------------------- counting
\* The units that hold a token of the semaphore: from the send in Go to the
\* deferred receive in the unit's goroutine.
TokenHolders ==
    {u \in UnitIds : units[u].st \in {"go_spawn", "spawned", "body", "recorded", "wgdone"}}

\* The units whose goroutine has been created and has not ended.
LiveGoroutines ==
    {u \in UnitIds : units[u].st \in {"spawned", "body", "recorded", "wgdone"}}

\* The units whose task body is executing.
Running == {u \in UnitIds : units[u].st = "body"}

\* The units counted in the WaitGroup: after wg.Add(1), before wg.Done().
Pending ==
    {u \in UnitIds : units[u].st \in {"go_launch", "go_spawn", "spawned", "body", "recorded"}}

Recorded(u) == u \in UnitIds /\ units[u].st \in RecordedSt
InGoCall(u) == u \in UnitIds /\ units[u].st \in GoCallSt
\* The fail-fast check let the unit pass.
Admitted(u) == u \in UnitIds /\ units[u].st \notin {"go_once", "go_once_f", "go_check", "denied"}

\* The life of a unit, from its record: submitted (Go called, the fail-fast
\* check not made yet), denied by the check, admitted (past the check, its
\* task not invoked yet), running (in the task body), and the three ways the
\* task body ends.
PhaseOf(r) ==
    IF r.st \in {"go_once", "go_once_f", "go_check"} THEN "Submitted"
    ELSE IF r.st = "denied" THEN "Denied"
    ELSE IF r.st = "body" THEN "Running"
    ELSE IF r.st \in RecordedSt
        THEN IF r.kind = "ok" THEN "Succeeded"
             ELSE IF r.kind = "err" THEN "FailedNormal"
             ELSE "FailedAbnormal"
    ELSE "Admitted"

\* The entries of errors that unit u appended.
ErrEntries(u) == {i \in 1..Len(errors) : errors[i].id = u}

\* ------------------------------------------------------------------ C1
\* C1: with Concurrent = C > 0, in every reachable state at most C units hold
\* a token of the semaphore (so at most C task bodies execute), whatever the
\* number of units, their outcomes and the number of goroutines inside Go.
C1_GateBound ==
    Concurrent > 0 =>
        /\ Cardinality(TokenHolders) <= Concurrent
        /\ Cardinality(Running) <= Concurrent

\* C tokens are held, a body runs, and a further Go call is blocked on the send.
C1_Witness ==
    /\ Concurrent > 0
    /\ Cardinality(TokenHolders) = Concurrent
    /\ Running # {}
    /\ \E u \in UnitIds : units[u].st = "go_launch"

\* ------------------------------------------------------------------ C2
\* C2: with Concurrent > 0 and one caller that calls Go N times and then
\* Wait, under fair scheduling every Go call returns, every admitted unit
\* records its outcome, and Wait returns, also for N > Concurrent.
C2_Progress ==
    /\ \A u \in 1..MaxUnits :
          (Concurrent > 0 /\ InGoCall(u)) ~> (~InGoCall(u))
    /\ \A u \in 1..MaxUnits :
          (Concurrent > 0 /\ Admitted(u)) ~> (Recorded(u))
    /\ (Concurrent > 0 /\ wait.pc = "wait_wg") ~> (wait.pc = "wait_ret")

\* Wait has returned after more units than tokens were launched and finished.
C2_Witness ==
    /\ Concurrent > 0
    /\ wait.pc = "wait_ret"
    /\ Cardinality({u \in UnitIds : units[u].st = "finished"}) > Concurrent

\* ------------------------------------------------------------------ C3
\* C3: once Wait is past the barrier, and so when it returns, every unit
\* launched by a Go call that returned before the Wait call began has
\* recorded its outcome, exactly once: a unit that returned nil is counted
\* in successCount and has no entry in errors, a unit that failed or
\* panicked has exactly one entry in errors and is not counted.
C3_WaitAfterReports ==
    wait.pc \in {"wait_stats", "wait_join", "wait_ret"} =>
        /\ \A u \in wait.seen :
              /\ Recorded(u)
              /\ Cardinality(ErrEntries(u)) = IF units[u].kind = "ok" THEN 0 ELSE 1
        /\ successCount =
              Cardinality({u \in UnitIds : Recorded(u) /\ units[u].kind = "ok"})
        /\ Len(errors) =
              Cardinality({u \in UnitIds : Recorded(u) /\ units[u].kind # "ok"})

\* Wait returns after a unit that succeeded and a unit that did not.
C3_Witness ==
    /\ wait.pc = "wait_ret"
    /\ \E u, v \in wait.seen : units[u].kind = "ok" /\ units[v].kind # "ok"

\* ------------------------------------------------------------------ C4
\* The units whose task body was invoked.
Invoked == {u \in UnitIds : units[u].st \in {"body", "recorded", "wgdone", "finished"}}

\* C4: with Concurrent = 0 and one caller that submits units and then calls
\* Wait, the successCount Wait returns is the number of invoked units that
\* returned nil, and the error it returns is non-nil exactly when some
\* invoked unit returned an error or panicked (for both AllowSomeFail).
C4_UnboundedTally ==
    (Concurrent = 0 /\ wait.pc = "wait_ret") =>
        /\ wait.sc = Cardinality({u \in Invoked : units[u].kind = "ok"})
        /\ (~wait.err.isNil) <=> (\E u \in Invoked : units[u].kind # "ok")

\* Wait returns after a success and a failure, with no bound configured.
C4_Witness ==
    /\ Concurrent = 0
    /\ wait.pc = "wait_ret"
    /\ wait.sc >= 1
    /\ ~wait.err.isNil

\* ------------------------------------------------------------------ C5
\* C5 as stated: at the step in which a Wait call returns,
\* successCount + len(errors) = totalTasks, also when Go calls run
\* concurrently with that Wait call.
C5_Original ==
    [][(Concurrent >= 0 /\ wait.pc = "wait_join" /\ wait'.pc = "wait_ret")
          => successCount' + Len(errors') = totalTasks']_vars

\* Every Go call begun so far had returned before the Wait call began, or was
\* denied by the fail-fast check.
NoGoOverlapsWait == \A u \in UnitIds : u \in wait.seen \/ units[u].st = "denied"

\* C5 amended: when a Wait call has returned and no Go call that passed the
\* fail-fast check overlapped it, successCount + len(errors) = totalTasks.
C5_TallyWithoutOverlap ==
    (wait.pc = "wait_ret" /\ NoGoOverlapsWait)
        => successCount + Len(errors) = totalTasks

\* Wait has returned with a success and a failure on the tally.
C5_Witness ==
    /\ wait.pc = "wait_ret"
    /\ NoGoOverlapsWait
    /\ successCount >= 1
    /\ Len(errors) >= 1

\* ------------------------------------------------------------------ C6
PanicUnits == {u \in UnitIds : units[u].kind = "panic"}

\* C6: a unit whose task panics with payload P has, once runTask has
\* recorded it, exactly one entry in errors, whose message is "task panic: "
\* followed by P, and none before; it is not counted in successCount; its
\* goroutine goes on to wg.Done(), so that when every unit has finished the
\* WaitGroup counter is zero and Wait is not held back.
C6_PanicIsOneFailure ==
    /\ \A u \in PanicUnits :
          /\ Cardinality(ErrEntries(u)) = IF Recorded(u) THEN 1 ELSE 0
          /\ \A i \in ErrEntries(u) : errors[i].msg = <<"task panic: ", "P">>
    /\ successCount = Cardinality({u \in UnitIds : Recorded(u) /\ units[u].kind = "ok"})
    /\ (\A u \in UnitIds : units[u].st \in {"finished", "denied"}) => wg = 0

\* A unit that panicked has finished, and Wait has returned its failure
\* after another unit's success.
C6_Witness ==
    /\ \E u \in PanicUnits : units[u].st = "finished"
    /\ wait.pc = "wait_ret"
    /\ wait.sc >= 1
    /\ wait.err = [isNil |-> FALSE, msg |-> <<"task panic: ", "P">>]

\* ------------------------------------------------------------------ C7
\* C7: every unit counted in the WaitGroup is counted once from wg.Add(1)
\* to its wg.Done(), and every token is held once from the send to the
\* unit's deferred receive, on every exit path of the task body; so when
\* every Go call has returned and every launched unit has finished, the
\* counter is 0 and the semaphore is empty.  ("Launched" is read as: counted
\* by wg.Add(1); a Go call still between wg.Add(1) and the go statement has
\* a unit that has not finished.)
C7_ReleasedExactlyOnce ==
    /\ wg = Cardinality(Pending)
    /\ semaphore.len = IF Concurrent > 0 THEN Cardinality(TokenHolders) ELSE 0
    /\ (\A u \in UnitIds : units[u].st \in {"finished", "denied"})
          => (wg = 0 /\ semaphore.len = 0)

\* Under a bound, a unit that panicked and a unit that did not have both
\* finished.
C7_Witness ==
    /\ Concurrent > 0
    /\ \E u, v \in UnitIds :
          /\ units[u].kind = "panic" /\ units[u].st = "finished"
          /\ units[v].kind # "panic" /\ units[v].st = "finished"
    /\ wg = 0
    /\ semaphore.len = 0

\* ------------------------------------------------------------------ C8
\* C8: with AllowSomeFail = false, a Go call that began when errors was
\* non-empty never gets past the fail-fast check: it returns without
\* launching its unit, and its steps leave totalTasks, successCount, errors,
\* the WaitGroup counter and the semaphore as they were; errors never
\* shrinks, so this is so for every later Go call.
C8_DeniedAfterFailure ==
    [][/\ \A u \in UnitIds :
             (~AllowSomeFail /\ units[u].sawFail) =>
                 /\ units'[u].st \in {"go_once", "go_check", "denied"}
                 /\ units'[u].st # units[u].st =>
                        UNCHANGED <<totalTasks, successCount, errors, wg, semaphore>>
       /\ Len(errors') >= Len(errors)
       /\ SubSeq(errors', 1, Len(errors)) = errors]_vars

\* A Go call that began after a failure has returned without launching.
C8_Witness ==
    /\ ~AllowSomeFail
    /\ \E u \in UnitIds : units[u].sawFail /\ units[u].st = "denied"

\* ------------------------------------------------------------------ C9
\* C9: in TestGoWaitIntegration/DisallowSomeFail (AllowSomeFail = false,
\* Concurrent = 1; the second task signals from inside its body and then
\* returns an error; the third is passed to Go after the signal is received)
\* the third task is never executed, and Wait returns successCount 1 with
\* exactly the second task's message.
C9_ThirdTaskNeverRuns ==
    /\ ~Signalled(TestUnits)
    /\ wait.pc = "wait_ret" =>
          (wait.sc = 1 /\ wait.err = [isNil |-> FALSE, msg |-> <<"E">>])

\* ----------------------------------------------------------------- C10
\* C10: with AllowSomeFail = false, a unit whose Go call passed the
\* fail-fast check is launched and runs to completion whatever is recorded
\* in errors afterwards: the check is not evaluated again.
C10_PassedCheckRuns ==
    \A u \in 1..MaxUnits :
        (~AllowSomeFail /\ Concurrent >= 0 /\ At(u, "go_addTotal"))
            ~> At(u, "finished")

\* A unit whose Go call began with errors empty is about to run its task
\* while errors is non-empty.
C10_Witness ==
    /\ ~AllowSomeFail
    /\ \E u \in UnitIds :
          units[u].st = "spawned" /\ ~units[u].sawFail /\ Len(errors) > 0

\* ----------------------------------------------------------------- C11
\* The messages of errs, in order, with "; " between consecutive messages.
RECURSIVE SepJoin(_)
SepJoin(errs) ==
    IF Len(errs) = 0 THEN <<>>
    ELSE IF Len(errs) = 1 THEN errs[1].msg
    ELSE errs[1].msg \o <<"; ">> \o SepJoin(Tail(errs))

\* C11: when Wait returns (one caller, no Go call during the Wait call), its
\* error is nil when errors is empty, and otherwise an error whose message is
\* the messages of errors in append order joined with "; ", whatever the
\* messages are, empty ones included.
C11_JoinedWithSeparator ==
    wait.pc = "wait_ret" =>
        wait.err = IF Len(errors) = 0 THEN NilError
                   ELSE NewError(SepJoin(errors))

\* C11 holds when no recorded message is empty.
C11_NonEmptyMessagesJoined ==
    (wait.pc = "wait_ret" /\ \A i \in 1..Len(errors) : errors[i].msg # <<>>) =>
        wait.err = IF Len(errors) = 0 THEN NilError
                   ELSE NewError(SepJoin(errors))
\* ----------------------------------------------------------------- C12
\* What a Wait call of the one caller has returned, until the caller's next
\* Go call: every unit launched so far has recorded its outcome, the count
\* is that of all successes and the error that of all failures since the
\* group was created; and the same result as the previous Wait call when no
\* Go call came in between.
C12_CumulativeResult ==
    (wait.pc = "wait_ret" /\ wait.gos = Len(units)) =>
        /\ \A u \in LaunchedUnits : Recorded(u)
        /\ wait.sc = Cardinality({u \in UnitIds : Recorded(u) /\ units[u].kind = "ok"})
        /\ wait.sc = successCount
        /\ wait.err = joinErrors
        /\ (wait.prev.valid /\ wait.prev.gos = wait.gos) =>
              (wait.sc = wait.prev.sc /\ wait.err = wait.prev.err)

\* C12: Wait may be called any number of times: no step decreases
\* successCount, len(errors) or totalTasks, no step of Wait changes them, and
\* every Wait call of a caller that alternates Go and Wait returns the
\* cumulative result, equal to the previous one when no Go call came between.
C12_WaitRepeatable ==
    [][/\ successCount' >= successCount
       /\ totalTasks' >= totalTasks
       /\ Len(errors') >= Len(errors)
       /\ wait' # wait => UNCHANGED <<successCount, totalTasks, errors>>
       /\ C12_CumulativeResult']_vars

\* A second Wait call, after a further Go call, has returned more than the
\* first: a success and a failure.
C12_Witness ==
    /\ wait.pc = "wait_ret"
    /\ wait.prev.valid
    /\ wait.prev.gos < wait.gos
    /\ wait.sc >= 1
    /\ ~wait.err.isNil
    /\ <<wait.sc, wait.err>> # <<wait.prev.sc, wait.prev.err>>
\* ----------------------------------------------------------------- C13
\* C13: as long as Go has never been called on the Group, a Wait call is
\* never blocked (each of its steps can be taken) and what it returns is
\* (0, nil), for every Concurrent and AllowSomeFail.
C13_EmptyGroupWait ==
    Len(units) = 0 =>
        /\ wait.pc \in {"wait_wg", "wait_stats", "wait_join"} => ENABLED WaitStep
        /\ wait.pc = "wait_ret" => (wait.sc = 0 /\ wait.err = NilError)

\* Wait has returned on a Group whose setup has not even run, with a
\* negative Concurrent.
C13_Witness ==
    /\ Len(units) = 0
    /\ once = "new"
    /\ Concurrent < 0
    /\ wait.pc = "wait_ret"
\* ----------------------------------------------------------------- C14
\* Unit u has run once and is on the tally.
C14_Counted(u) ==
    /\ At(u, "finished")
    /\ units[u].runs = 1
    /\ Cardinality(ErrEntries(u)) = IF units[u].kind = "ok" THEN 0 ELSE 1
    /\ successCount = Cardinality({v \in UnitIds : Recorded(v) /\ units[v].kind = "ok"})
    /\ totalTasks >= Cardinality({v \in UnitIds : Recorded(v)})

\* C14: with AllowSomeFail = true (and Concurrent >= 0), a Go call that
\* begins when errors is non-empty still launches its unit, which runs to
\* completion and is counted; Wait still returns; and throughout the
\* WaitGroup counter is the number of pending units and at most Concurrent
\* tokens are held.
C14_FailuresDoNotStopAdmission ==
    /\ \A u \in 1..MaxUnits :
          (AllowSomeFail /\ Concurrent >= 0 /\ u \in UnitIds /\ units[u].sawFail)
              ~> C14_Counted(u)
    /\ (AllowSomeFail /\ Concurrent >= 0 /\ wait.pc = "wait_wg")
          ~> (wait.pc = "wait_ret")
    /\ [](AllowSomeFail =>
             /\ wg = Cardinality(Pending)
             /\ \A u \in UnitIds : units[u].st # "denied"
             /\ Concurrent > 0 => /\ semaphore.len = Cardinality(TokenHolders)
                                  /\ Cardinality(TokenHolders) <= Concurrent)

\* Under a bound, a unit submitted after a failure has finished and Wait
\* has returned.
C14_Witness ==
    /\ AllowSomeFail
    /\ Concurrent > 0
    /\ wait.pc = "wait_ret"
    /\ \E u \in UnitIds : units[u].sawFail /\ C14_Counted(u)
\* ----------------------------------------------------------------- C15
\* C15: the task body of a unit has been invoked exactly once from the
\* moment runTask calls it, whatever its outcome (no second invocation after
\* an error or a panic), and not at all before, nor ever for a unit whose Go
\* call was denied.
C15_InvokedExactlyOnce ==
    \A u \in UnitIds :
        /\ units[u].runs = IF u \in Invoked THEN 1 ELSE 0
        /\ units[u].st = "finished" => units[u].runs = 1
        /\ units[u].st = "denied" => units[u].runs = 0

\* A unit that failed has finished after one invocation, and a later unit
\* was denied without any.
C15_Witness ==
    \E u, v \in UnitIds :
        /\ units[u].kind # "ok" /\ units[u].st = "finished" /\ units[u].runs = 1
        /\ units[v].st = "denied" /\ units[v].runs = 0
\* ----------------------------------------------------------------- C16
PhaseMoves ==
    {<<"Submitted", "Admitted">>, <<"Submitted", "Denied">>,
     <<"Admitted", "Running">>, <<"Running", "Succeeded">>,
     <<"Running", "FailedNormal">>, <<"Running", "FailedAbnormal">>}

\* C16: a unit begins Submitted and changes phase only along
\* Submitted -> Admitted -> Running -> Succeeded | FailedNormal |
\* FailedAbnormal, or Submitted -> Denied; no step leaves an end phase or
\* Denied; a step of a Submitted or Denied unit changes neither totalTasks
\* nor the WaitGroup counter nor the number of tokens held; the step into
\* Succeeded is the one that increments successCount, the step into a
\* Failed phase the one that appends to errors.
C16_UnitLifecycle ==
    [][/\ \A u \in UnitIds :
             /\ \/ PhaseOf(units'[u]) = PhaseOf(units[u])
                \/ <<PhaseOf(units[u]), PhaseOf(units'[u])>> \in PhaseMoves
             /\ units'[u].kind = units[u].kind
             /\ (PhaseOf(units[u]) \in {"Submitted", "Denied"} /\ units'[u] # units[u])
                   => /\ UNCHANGED <<totalTasks, wg>>
                      /\ semaphore'.len = semaphore.len
             /\ (PhaseOf(units[u]) = "Running" /\ PhaseOf(units'[u]) = "Succeeded")
                   => (successCount' = successCount + 1 /\ errors' = errors)
             /\ (PhaseOf(units[u]) = "Running"
                     /\ PhaseOf(units'[u]) \in {"FailedNormal", "FailedAbnormal"})
                   => (successCount' = successCount /\ Len(errors') = Len(errors) + 1)
       /\ \A u \in (1..Len(units')) \ UnitIds : PhaseOf(units'[u]) = "Submitted"]_vars

\* One unit has ended by a panic, and a later one was denied and left the
\* tally alone.
C16_Witness ==
    /\ \E u, v \in UnitIds :
          /\ PhaseOf(units[u]) = "FailedAbnormal"
          /\ PhaseOf(units[v]) = "Denied"
    /\ totalTasks = 1
\* ----------------------------------------------------------------- C17
\* C17: totalTasks is at most the number of Go calls begun so far, and when
\* every one of them has returned, totalTasks equals that number exactly
\* when none of them was denied by the fail-fast check.
C17_TotalCountsAdmitted ==
    /\ totalTasks <= Len(units)
    /\ NoGoInFlight =>
          (totalTasks = Len(units) <=> \A u \in UnitIds : units[u].st # "denied")

\* Every Go call has returned, one of them denied: totalTasks is short of
\* the number of calls.
C17_Witness ==
    /\ Len(units) >= 2
    /\ NoGoInFlight
    /\ \E u \in UnitIds : units[u].st = "denied"
    /\ totalTasks = Len(units) - 1
\* ----------------------------------------------------------------- C18
\* The Go calls that are executing the function passed to once.Do.
InSetup == {u \in UnitIds : units[u].st = "go_once_f"}

\* At most one Go call is in the setup, exactly when the Once is running;
\* a Go call past once.Do implies the setup has completed; and once it has,
\* the semaphore is nil for Concurrent <= 0 and has capacity Concurrent
\* otherwise.
C18_SetupState ==
    /\ Cardinality(InSetup) = IF once = "running" THEN 1 ELSE 0
    /\ \A u \in UnitIds : units[u].st \notin {"go_once", "go_once_f"} => once = "done"
    /\ once # "done" => semaphore = NilChan
    /\ once = "done" =>
          /\ semaphore.made = (Concurrent > 0)
          /\ semaphore.made => semaphore.cap = Concurrent

\* C18: the setup runs exactly once over the life of a Group, also when the
\* first Go calls are concurrent: the Once goes from new to running to done
\* and stays done, the step that completes it allocates errors and the
\* semaphore, no Go call is past once.Do before that step, and the
\* semaphore's capacity never changes afterwards.
C18_SetupOnce ==
    [][/\ C18_SetupState /\ C18_SetupState'
       /\ once' # once => <<once, once'>> \in {<<"new", "running">>, <<"running", "done">>}
       /\ (once = "running" /\ once' = "done") =>
             (errors' = <<>> /\ semaphore' = onceSemaphore)
       /\ once = "done" =>
             (semaphore'.made = semaphore.made /\ semaphore'.cap = semaphore.cap)]_vars

\* Two first Go calls at once: one runs the setup, the other waits in
\* once.Do.
C18_Witness ==
    /\ Concurrent > 0
    /\ once = "running"
    /\ \E u, v \in UnitIds :
          units[u].st = "go_once_f" /\ units[v].st = "go_once"
\* ----------------------------------------------------------------- C19
\* C19: no Wait call reads g.errors outside the mutex: whenever it builds
\* the combined error, g.mu is held.  (The counters and errors are otherwise
\* accessed through addError, addTotalTasks, getHasFailed, addSuccessCount
\* and getStats, each one step of the model, taken with g.mu locked.)
C19_WaitReadsUnderMutex == ~wait.bare
\* ----------------------------------------------------------------- C20
\* C20: with Concurrent = C > 0, a Go call past the fail-fast check stays at
\* the send while C tokens are held, leaves it only by taking a token, and
\* only then creates the unit's goroutine; so at most C goroutines have
\* been created and have not ended.
C20_ThrottledAtCallSite ==
    [][Concurrent > 0 =>
         /\ Cardinality(LiveGoroutines) <= Concurrent
         /\ Cardinality(LiveGoroutines') <= Concurrent
         /\ \A u \in UnitIds :
               /\ (units[u].st = "go_launch" /\ semaphore.len >= Concurrent)
                     => units'[u].st = "go_launch"
               /\ (units[u].st = "go_launch" /\ units'[u].st # "go_launch")
                     => /\ units'[u].st = "go_spawn"
                        /\ semaphore'.len = semaphore.len + 1
               /\ (units[u].st # "spawned" /\ units'[u].st = "spawned")
                     => (units[u].st = "go_spawn" /\ semaphore.len >= 1)]_vars

\* C goroutines are alive, every token is held, and a Go call waits at the
\* send.
C20_Witness ==
    /\ Concurrent > 0
    /\ semaphore.len = Concurrent
    /\ Cardinality(LiveGoroutines) = Concurrent
    /\ \E u \in UnitIds : units[u].st = "go_launch"

\* ==================================================== utils.LocalCache
MaxTime == 2           \* the clock runs from 0 to MaxTime
MaxCallers == 2        \* goroutines that call GetOrSet concurrently
MaxCalls == 1          \* GetOrSet calls of a goroutine that also calls the rest

\* NewLocalCache(expire): any duration, zero included.
ExpireValues == 0..MaxTime

\* What the fn passed to GetOrSet returns: (v, nil) or (nil, e).
Fns == [fails : {FALSE}, v : Values] \cup {[fails |-> TRUE, v |-> "nil"]}

CallerIds == 1..Len(callers)
CAt(c, s) == c \in CallerIds /\ callers[c].pc = s

\* Mutant: an entry aged exactly expire still counts as fresh.
FreshInclusive(item) == now - item.Timestamp <= expire

\* if time.Since(item.Timestamp) < lc.expire
Fresh(item) == now - item.Timestamp < expire

\* LocalCache.Get
Get(k) ==
    IF items[k].exists /\ Fresh(items[k])
        THEN [v |-> items[k].Data, ok |-> TRUE]
        ELSE [v |-> "nil", ok |-> FALSE]

\* LocalCache.Set: the entry replaced, stamped with time.Now().
Set(k, v) ==
    /\ items' = [items EXCEPT ![k] = [exists |-> TRUE, Data |-> v, Timestamp |-> now]]
    /\ lastOp' = [lastOp EXCEPT ![k] = [op |-> "set", v |-> v, t |-> now]]

\* ---------------------------------------------- the calls of one client
\* No GetOrSet call is in progress.
NoCallInFlight == \A c \in CallerIds : callers[c].pc = "ret"

\* cache.Get(k)
CacheGet(k) ==
    /\ got' = [valid |-> TRUE, key |-> k, v |-> Get(k).v, ok |-> Get(k).ok,
               at |-> now, after |-> prevOp]
    /\ prevOp' = NoPrevOp
    /\ UNCHANGED <<now, expire, items, flights, callers, lastOp, notCache>>

\* cache.Set(k, v)
CacheSet(k, v) ==
    /\ Set(k, v)
    /\ got' = NoGet
    /\ prevOp' = NoPrevOp
    /\ UNCHANGED <<now, expire, flights, callers, notCache>>

\* cache.Delete(k)
CacheDelete(k) ==
    /\ items' = [items EXCEPT ![k] = NoItem]
    /\ lastOp' = [lastOp EXCEPT ![k] = [op |-> "delete", v |-> "nil", t |-> now]]
    /\ got' = NoGet
    /\ prevOp' = NoPrevOp
    /\ UNCHANGED <<now, expire, flights, callers, notCache>>

\* cache.Clear()
CacheClear ==
    /\ items' = [k \in Keys |-> NoItem]
    /\ lastOp' = [k \in Keys |-> [op |-> "clear", v |-> "nil", t |-> now]]
    /\ got' = NoGet
    /\ prevOp' = NoPrevOp
    /\ UNCHANGED <<now, expire, flights, callers, notCache>>

\* Time passes.
Tick ==
    /\ now < MaxTime
    /\ now' = now + 1
    /\ UNCHANGED <<expire, items, flights, callers, lastOp, got, prevOp, notCache>>
\* ------------------------------------------------- LocalCache.GetOrSet
\* A goroutine begins cache.GetOrSet(k, fn).
StartGetOrSet(k, fn) ==
    /\ callers' = Append(callers, [key |-> k, fn |-> fn, pc |-> "get",
                                   call |-> 0, val |-> "nil", hit |-> FALSE,
                                   err |-> "nil", ran |-> 0])
    /\ got' = NoGet
    /\ prevOp' = NoPrevOp
    /\ UNCHANGED <<now, expire, items, flights, lastOp, notCache>>

\* if data, exists := lc.Get(key); exists { return data, true, nil }
GosGet(c) ==
    /\ CAt(c, "get")
    /\ LET r == Get(callers[c].key) IN
         IF r.ok
           THEN /\ callers' = [callers EXCEPT ![c].pc = "ret", ![c].val = r.v,
                                              ![c].hit = TRUE]
                /\ prevOp' = [op |-> "getorset", c |-> c]
           ELSE /\ callers' = [callers EXCEPT ![c].pc = "do"]
                /\ prevOp' = prevOp
    /\ UNCHANGED <<now, expire, items, flights, lastOp, got, notCache>>

\* lc.group.Do(key, ...): with no call in flight for the key this call
\* becomes the flight and runs the function; otherwise it waits for the
\* flight and shares its result.
GosDo(c) ==
    /\ CAt(c, "do")
    /\ LET k == callers[c].key IN
         IF flights[k] = 0
           THEN /\ flights' = [flights EXCEPT ![k] = c]
                /\ callers' = [callers EXCEPT ![c].pc = "fn", ![c].call = c]
           ELSE /\ flights' = flights
                /\ callers' = [callers EXCEPT ![c].pc = "shared",
                                              ![c].call = flights[k]]
    /\ UNCHANGED <<now, expire, items, lastOp, got, prevOp, notCache>>

\* Mutant: the error of fn not tested: the value is stored whatever it is.
GosFnIgnoresError(c) ==
    /\ CAt(c, "fn")
    /\ callers' = [callers EXCEPT
                     ![c].ran = @ + 1,
                     ![c].pc = "set",
                     ![c].val = callers[c].fn.v,
                     ![c].err = IF callers[c].fn.fails THEN "e" ELSE "nil"]
    /\ UNCHANGED <<now, expire, items, flights, lastOp, got, prevOp, notCache>>

\* data, err := fn(); if err != nil { return nil, err }
GosFn(c) ==
    /\ CAt(c, "fn")
    /\ callers' = [callers EXCEPT
                     ![c].ran = @ + 1,
                     ![c].pc = IF callers[c].fn.fails THEN "finish" ELSE "set",
                     ![c].val = callers[c].fn.v,
                     ![c].err = IF callers[c].fn.fails THEN "e" ELSE "nil"]
    /\ UNCHANGED <<now, expire, items, flights, lastOp, got, prevOp, notCache>>

\* lc.Set(key, data); return data, nil
GosSet(c) ==
    /\ CAt(c, "set")
    /\ Set(callers[c].key, callers[c].val)
    /\ callers' = [callers EXCEPT ![c].pc = "finish"]
    /\ UNCHANGED <<now, expire, flights, got, prevOp, notCache>>

\* The flight ends: singleflight removes the key and wakes the goroutines
\* that wait for it; return result, false, err.
GosFinish(c) ==
    /\ CAt(c, "finish")
    /\ flights' = [flights EXCEPT ![callers[c].key] = 0]
    /\ callers' = [callers EXCEPT ![c].pc = "ret"]
    /\ prevOp' = [op |-> "getorset", c |-> c]
    /\ UNCHANGED <<now, expire, items, lastOp, got, notCache>>

\* A goroutine that waited for the flight returns the flight's result.
GosShared(c) ==
    /\ CAt(c, "shared")
    /\ callers[callers[c].call].pc = "ret"
    /\ callers' = [callers EXCEPT ![c].pc = "ret",
                                  ![c].val = callers[callers[c].call].val,
                                  ![c].err = callers[callers[c].call].err]
    /\ prevOp' = [op |-> "getorset", c |-> c]
    /\ UNCHANGED <<now, expire, items, flights, lastOp, got, notCache>>

\* The steps of a GetOrSet call that runs its function.
GosLeadStep(c) ==
    \/ GosGet(c)
    \/ GosDo(c)
    \/ GosFn(c)
    \/ GosSet(c)
    \/ GosFinish(c)

\* --------------------------------------- LocalCache used by one goroutine
CacheInit ==
    /\ GroupIdle
    /\ LoggerIdle
    /\ CallbackIdle
    /\ OnceErrIdle
    /\ ChunkIdle
    /\ \E e \in ExpireValues : NewLocalCache(e)

ClientGet == NoCallInFlight /\ \E k \in Keys : CacheGet(k)
ClientSet == NoCallInFlight /\ \E k \in Keys, v \in Values : CacheSet(k, v)
ClientDelete == NoCallInFlight /\ \E k \in Keys : CacheDelete(k)
ClientClear == NoCallInFlight /\ CacheClear

\* One goroutine calls Set, Delete, Clear and Get, one after the other,
\* while time passes.
CacheNext ==
    \/ ClientGet
    \/ ClientSet
    \/ ClientDelete
    \/ ClientClear
    \/ Tick

CacheSpec == CacheInit /\ [][CacheNext]_vars

\* ------------------------------- GetOrSet among the calls of one goroutine
ClientGetOrSet ==
    /\ NoCallInFlight
    /\ Len(callers) < MaxCalls
    /\ \E k \in Keys, fn \in Fns : StartGetOrSet(k, fn)

\* One goroutine calls Set, Get and GetOrSet, one after the other, while
\* time passes (also while fn runs).
LoadNext ==
    \/ ClientGet
    \/ ClientSet
    \/ ClientGetOrSet
    \/ \E c \in 1..MaxCalls : GosLeadStep(c)
    \/ Tick

LoadSpec == CacheInit /\ [][LoadNext]_vars

\* ------------------------------------ GetOrSet called by many goroutines
AnyGetOrSet ==
    /\ Len(callers) < MaxCallers
    /\ \E k \in Keys, fn \in Fns : StartGetOrSet(k, fn)

\* Any number of goroutines call GetOrSet on a new cache, at any time.
FlightNext ==
    \/ AnyGetOrSet
    \/ \E c \in 1..MaxCallers : GosLeadStep(c)
    \/ \E c \in 1..MaxCallers : GosShared(c)

FlightSpec == CacheInit /\ [][FlightNext]_vars
\* ----------------------------------------------------------------- C21
\* The GetOrSet calls made with key k.
CallersOf(k) == {c \in CallerIds : callers[c].key = k}

\* Goroutines called GetOrSet with key k on a new cache, all with the same
\* fn that returns a value, and all have returned.
SameLoaderDone(k) ==
    /\ expire > 0
    /\ CallersOf(k) # {}
    /\ \A c \in CallersOf(k) : callers[c].pc = "ret" /\ ~callers[c].fn.fails
    /\ \A c, d \in CallersOf(k) : callers[c].fn = callers[d].fn

\* C21: when any number of goroutines have called GetOrSet with the same
\* key, not cached, and the same fn, and all have returned, fn was executed
\* exactly once in all, and every caller has fn's value and a nil error.
C21_LoaderRunsOnce ==
    \A k \in Keys :
        SameLoaderDone(k) =>
            /\ Cardinality({c \in CallersOf(k) : callers[c].ran > 0}) = 1
            /\ \A c \in CallersOf(k) :
                  /\ callers[c].ran <= 1
                  /\ callers[c].val = callers[c].fn.v
                  /\ callers[c].err = "nil"
\* ----------------------------------------------------------------- C22
\* What a step of a GetOrSet call does, for a goroutine that makes its
\* calls one after the other: on an unexpired entry the call returns
\* (cached value, true, nil) without invoking fn; otherwise it goes on to
\* fn, and returns (v, false, nil) when fn returned (v, nil) and
\* (nil, false, e) when fn returned the error e, having invoked fn once;
\* and no step of a call whose fn fails changes the contents of the cache.
C22_CallContract ==
    \A c \in CallerIds :
        LET k == callers[c].key
            fn == callers[c].fn
        IN  /\ (callers[c].pc = "get" /\ callers'[c].pc # "get") =>
                  IF Get(k).ok
                    THEN callers'[c] = [callers[c] EXCEPT !.pc = "ret",
                                           !.val = Get(k).v, !.hit = TRUE]
                    ELSE callers'[c].pc = "do"
            /\ (callers[c].pc \notin {"get", "ret"} /\ callers'[c].pc = "ret") =>
                  /\ callers'[c].hit = FALSE
                  /\ callers'[c].ran = 1
                  /\ callers'[c].val = fn.v
                  /\ callers'[c].err = IF fn.fails THEN "e" ELSE "nil"
            /\ callers'[c].ran <= 1
            /\ callers'[c].hit => (callers'[c].ran = 0 /\ callers'[c].err = "nil")
            /\ (fn.fails /\ callers'[c] # callers[c]) => items' = items

\* The Get call made right after a GetOrSet call that stored fn's value
\* returns that value; with timely: provided less than expire has passed
\* since it was stored.
C22_FollowingGet(timely) ==
    (/\ got.valid
     /\ got.after.op = "getorset"
     /\ got.key = callers[got.after.c].key
     /\ ~callers[got.after.c].hit
     /\ ~callers[got.after.c].fn.fails
     /\ timely => got.at - lastOp[got.key].t < expire)
        => (got.ok /\ got.v = callers[got.after.c].fn.v)

\* C22 as stated: the contract of the call, and a following Get(key)
\* returns (v, true) after fn returned (v, nil).
C22_Original == [][C22_CallContract /\ C22_FollowingGet(FALSE)']_vars

\* C22 amended: the contract of the call, and a following Get(key) returns
\* (v, true) after fn returned (v, nil) when it is made less than expire
\* after the value was stored.
C22_GetOrSetContract == [][C22_CallContract /\ C22_FollowingGet(TRUE)']_vars

\* A Get made one tick after a GetOrSet call stored fn's value has returned
\* that value.
C22_Witness ==
    /\ got.valid
    /\ got.ok
    /\ got.after.op = "getorset"
    /\ ~callers[got.after.c].hit
    /\ got.v = callers[got.after.c].fn.v
    /\ got.at > lastOp[got.key].t
\* ----------------------------------------------------------------- C23
\* C23: after any sequence of Set, Delete and Clear, with time passing in
\* between, Get(key) returns (v, true) exactly when the most recent of them
\* that affected key was a Set(key, v) made less than expire before the
\* Get, and (nil, false) otherwise.
C23_GetSeesLatestSet ==
    got.valid =>
        LET l == lastOp[got.key] IN
            IF l.op = "set" /\ got.at - l.t < expire
                THEN got.ok /\ got.v = l.v
                ELSE ~got.ok /\ got.v = "nil"

\* Get has missed an entry that was set and has aged expire or more, on a
\* cache whose entries do live for a while.
C23_Witness ==
    /\ expire > 0
    /\ got.valid
    /\ ~got.ok
    /\ lastOp[got.key].op = "set"
    /\ got.at - lastOp[got.key].t >= expire

\* ====================================================== utils.CallbackGo
MaxGoroutines == 2     \* CallbackGo calls

\* What fn does: it returns, or it panics with a value.
PanicValues == {"p", "q"}
FnOutcomes == {[panics |-> FALSE, v |-> "nil"]} \cup [panics : {TRUE}, v : PanicValues]

CbIds == 1..Len(cbs)
CbAt(g, s) == g \in CbIds /\ cbs[g].pc = s

\* SetPanicHandler(hd), called before any goroutine is started (the
\* variable is read and written without synchronisation).
SetPanicHandler ==
    /\ Len(cbs) = 0
    /\ panicHandler = "nil"
    /\ panicHandler' = "hd"
    /\ UNCHANGED <<cbs, handled, notCallback>>

\* CallbackGo(fn, callback): go func() { defer func() {...}(); fn() }()
CallbackGo(o) ==
    /\ cbs' = Append(cbs, [fn |-> o, pc |-> "fn", panicking |-> FALSE,
                           cbRuns |-> 0])
    /\ UNCHANGED <<panicHandler, handled, notCallback>>

\* Mutant: callback called after fn() instead of deferred: a panic of fn
\* skips it.
CbFnNotDeferred(g) ==
    /\ CbAt(g, "fn")
    /\ cbs' = [cbs EXCEPT ![g].pc = IF cbs[g].fn.panics THEN "recover" ELSE "deferred",
                          ![g].panicking = cbs[g].fn.panics]
    /\ UNCHANGED <<panicHandler, handled, notCallback>>

\* fn(): it returns or panics; either way the deferred function runs next.
CbFn(g) ==
    /\ CbAt(g, "fn")
    /\ cbs' = [cbs EXCEPT ![g].pc = "deferred", ![g].panicking = cbs[g].fn.panics]
    /\ UNCHANGED <<panicHandler, handled, notCallback>>

\* callback()
CbCallback(g) ==
    /\ CbAt(g, "deferred")
    /\ cbs' = [cbs EXCEPT ![g].pc = "recover", ![g].cbRuns = @ + 1]
    /\ UNCHANGED <<panicHandler, handled, notCallback>>

\* if err := recover(); err != nil { if panicHandler != nil { ... } }
\* recover() ends the panic and returns its value, or nil without a panic.
CbRecover(g) ==
    /\ CbAt(g, "recover")
    /\ cbs' = [cbs EXCEPT
                 ![g].panicking = FALSE,
                 ![g].pc = IF cbs[g].panicking /\ panicHandler # "nil"
                             THEN "handler" ELSE "done"]
    /\ UNCHANGED <<panicHandler, handled, notCallback>>

\* panicHandler(err)
CbHandler(g) ==
    /\ CbAt(g, "handler")
    /\ handled' = Append(handled, [g |-> g, v |-> cbs[g].fn.v])
    /\ cbs' = [cbs EXCEPT ![g].pc = "done"]
    /\ UNCHANGED <<panicHandler, notCallback>>

CbStep(g) ==
    \/ CbFn(g)
    \/ CbCallback(g)
    \/ CbRecover(g)
    \/ CbHandler(g)

AnyCallbackGo ==
    /\ Len(cbs) < MaxGoroutines
    /\ \E o \in FnOutcomes : CallbackGo(o)

CallbackInit == GroupIdle /\ LibIdle

CallbackNext ==
    \/ SetPanicHandler
    \/ AnyCallbackGo
    \/ \E g \in 1..MaxGoroutines : CbStep(g)

CallbackSpec == CallbackInit /\ [][CallbackNext]_vars

\* ----------------------------------------------------------------- C24
\* The invocations of panicHandler made for goroutine g.
HandledFor(g) == {i \in 1..Len(handled) : handled[i].g = g}

\* C24: for every CallbackGo call, callback has run exactly once as soon as
\* the deferred function has called it, and not before fn has finished;
\* no panic is left when the goroutine ends; and panicHandler is invoked
\* only after callback, once, with the value fn panicked with, exactly
\* when fn panicked and a handler is registered.
C24_CallbackOnce ==
    \A g \in CbIds :
        /\ cbs[g].cbRuns = IF cbs[g].pc \in {"recover", "handler", "done"} THEN 1 ELSE 0
        /\ cbs[g].pc = "done" => ~cbs[g].panicking
        /\ HandledFor(g) # {} => cbs[g].cbRuns = 1
        /\ \A i \in HandledFor(g) : handled[i].v = cbs[g].fn.v /\ cbs[g].fn.panics
        /\ Cardinality(HandledFor(g)) =
              IF cbs[g].pc = "done" /\ cbs[g].fn.panics /\ panicHandler # "nil"
                THEN 1 ELSE 0

\* A goroutine whose fn panicked has ended after callback and the handler,
\* another whose fn returned has ended after callback alone.
C24_Witness ==
    \E g, h \in CbIds :
        /\ cbs[g].pc = "done" /\ cbs[g].fn.panics /\ HandledFor(g) # {}
        /\ cbs[h].pc = "done" /\ ~cbs[h].fn.panics /\ cbs[h].cbRuns = 1

\* ========================================================= utils.OnceErr
MaxSetters == 3        \* SetError calls

\* The arguments of SetError: nil is one of them.
ErrArgs == {"nil", "e1", "e2"}

SetterIds == 1..Len(setters)
SAt(i, s) == i \in SetterIds /\ setters[i].pc = s

\* A goroutine begins n.SetError(err).
SetError(err) ==
    /\ setters' = Append(setters, [arg |-> err, pc |-> "do", ran |-> FALSE])
    /\ UNCHANGED <<oeOnce, oeErr, notOnceErr>>

\* Mutant: the assignment made by every call, without the sync.Once.
OeDoAlways(i) ==
    /\ SAt(i, "do")
    /\ oeOnce # "running"
    /\ oeOnce' = "running"
    /\ setters' = [setters EXCEPT ![i].pc = "f"]
    /\ UNCHANGED <<oeErr, notOnceErr>>

\* n.once.Do(f): the first caller runs f, a caller that arrives while f runs
\* waits for it, a later caller returns at once.
OeDo(i) ==
    /\ SAt(i, "do")
    /\ oeOnce # "running"
    /\ IF oeOnce = "new"
         THEN /\ oeOnce' = "running"
              /\ setters' = [setters EXCEPT ![i].pc = "f"]
         ELSE /\ oeOnce' = oeOnce
              /\ setters' = [setters EXCEPT ![i].pc = "ret"]
    /\ UNCHANGED <<oeErr, notOnceErr>>

\* n.err = err
OeF(i) ==
    /\ SAt(i, "f")
    /\ oeErr' = setters[i].arg
    /\ oeOnce' = "done"
    /\ setters' = [setters EXCEPT ![i].pc = "ret", ![i].ran = TRUE]
    /\ UNCHANGED notOnceErr

\* OnceErr.Error
Error == oeErr

SetterStep(i) ==
    \/ OeDo(i)
    \/ OeF(i)

AnySetError ==
    /\ Len(setters) < MaxSetters
    /\ \E e \in ErrArgs : SetError(e)

OnceErrNext ==
    \/ AnySetError
    \/ \E i \in 1..MaxSetters : SetterStep(i)

\* Any number of goroutines call SetError on one OnceErr, at any time.
OnceErrInit == GroupIdle /\ LibIdle

OnceErrSpec == OnceErrInit /\ [][OnceErrNext]_vars

\* ----------------------------------------------------------------- C25
\* The SetError calls that took effect.
Effective == {i \in SetterIds : setters[i].ran}

\* Before any SetError call Error() is nil; once a SetError call has
\* returned, exactly one call has taken effect and Error() is its argument.
C25_ErrorIsFirst ==
    /\ Len(setters) = 0 => Error = "nil"
    /\ Cardinality(Effective) <= 1
    /\ Effective = {} => Error = "nil"
    /\ \A i \in Effective : Error = setters[i].arg
    /\ (\E i \in SetterIds : setters[i].pc = "ret") => Cardinality(Effective) = 1

\* C25: under any interleaving of SetError calls, Error() is nil before any
\* call, is the argument of the one call that took effect (nil included)
\* from the moment any call has returned, and is never changed after that
\* call took effect.
C25_FirstErrorSticks ==
    [][/\ C25_ErrorIsFirst
       /\ C25_ErrorIsFirst'
       /\ Effective # {} => (Error' = Error /\ Effective' = Effective)]_vars

\* Two goroutines have called SetError, the one that took effect with nil,
\* the other with an error.
C25_Witness ==
    \E i, j \in SetterIds :
        /\ setters[i].pc = "ret" /\ setters[i].ran /\ setters[i].arg = "nil"
        /\ setters[j].pc = "ret" /\ ~setters[j].ran /\ setters[j].arg # "nil"
        /\ Error = "nil"

\* =========================================================== utils.Chunk
MaxLen == 4            \* longest slice passed to Chunk
MaxSize == 3           \* largest size passed to Chunk

ChunkElems == {"a", "b"}

\* The slices of at most n elements.
SlicesUpTo(n) == UNION {[1..m -> ChunkElems] : m \in 0..n}

\* data[lo:hi], with Go's indices from 0.
Slice(data, lo, hi) == SubSeq(data, lo + 1, hi)

\* Mutant: the test for a full chunk off by one.
RECURSIVE ChunkLoopOffByOne(_, _, _, _)
ChunkLoopOffByOne(data, size, i, result) ==
    IF ~(i < Len(data)) THEN result
    ELSE ChunkLoopOffByOne(data, size, i + size,
             Append(result,
                    IF i + size <= Len(data) - 2
                        THEN Slice(data, i, i + size)
                        ELSE Slice(data, i, Len(data))))

\* for i := 0; i < len(data); i += size { ... }
RECURSIVE ChunkLoop(_, _, _, _)
ChunkLoop(data, size, i, result) ==
    IF ~(i < Len(data)) THEN result
    ELSE ChunkLoop(data, size, i + size,
             Append(result,
                    IF i + size <= Len(data) - 1
                        THEN Slice(data, i, i + size)
                        ELSE Slice(data, i, Len(data))))

\* func Chunk[T any](data []T, size int) [][]T
Chunk(data, size) ==
    IF Len(data) <= size THEN <<data>>
    ELSE ChunkLoop(data, size, 0, <<>>)

\* Chunk is called with a slice and a size >= 1.
ChunkInit ==
    /\ GroupIdle
    /\ LoggerIdle
    /\ CacheIdle
    /\ CallbackIdle
    /\ OnceErrIdle
    /\ chunkIn \in [data : SlicesUpTo(MaxLen), size : 1..MaxSize]
    /\ chunkOut = NoChunkResult
    /\ chunkRun = NoChunkRun

\* The call returns.
ChunkCall ==
    /\ ~chunkOut.done
    /\ chunkOut' = [done |-> TRUE, result |-> Chunk(chunkIn.data, chunkIn.size)]
    /\ UNCHANGED <<chunkIn, chunkRun, notChunk>>

ChunkSpec == ChunkInit /\ [][ChunkCall]_vars

\* ----------------------------------------------------------------- C26
\* The chunks one after the other.
RECURSIVE Flatten(_)
Flatten(cs) == IF Len(cs) = 0 THEN <<>> ELSE Head(cs) \o Flatten(Tail(cs))

\* The chunks put together are data, every chunk but the last has size
\* elements, the last at most size, and data of at most size elements comes
\* back as the one chunk.
C26_Partition(data, size, cs) ==
    /\ Len(cs) >= 1
    /\ Flatten(cs) = data
    /\ \A j \in 1..(Len(cs) - 1) : Len(cs[j]) = size
    /\ Len(cs[Len(cs)]) <= size
    /\ Len(data) <= size => cs = <<data>>

\* C26 as stated: for every slice and every size >= 1 the result is such a
\* partition and its last chunk has at least 1 element.
C26_Original ==
    chunkOut.done =>
        /\ C26_Partition(chunkIn.data, chunkIn.size, chunkOut.result)
        /\ Len(chunkOut.result[Len(chunkOut.result)]) >= 1

\* C26 amended: for every slice and every size >= 1 the result is such a
\* partition; its last chunk has at least 1 element when data is not
\* empty, and for empty data the result is one empty chunk.
C26_ChunksPartitionData ==
    chunkOut.done =>
        /\ C26_Partition(chunkIn.data, chunkIn.size, chunkOut.result)
        /\ IF Len(chunkIn.data) > 0
             THEN Len(chunkOut.result[Len(chunkOut.result)]) >= 1
             ELSE chunkOut.result = << <<>> >>

\* A slice cut into full chunks and a shorter last one.
C26_Witness ==
    /\ chunkOut.done
    /\ Len(chunkOut.result) >= 2
    /\ Len(chunkOut.result[Len(chunkOut.result)]) < chunkIn.size
    /\ chunkIn.size >= 2

\* ================================================= gtask, further claims
\* ----------------------------------------------------------------- C27
\* The failures that were in g.errors when getStats read successCount.
C27_FailuresAtStats == SubSeq(errors, 1, wait.n)

\* C27: the error a Wait call returns joins exactly the failures that were
\* present at the instant its successCount was read, also when Go calls
\* and unit completions run concurrently with that Wait.
C27_AtomicSnapshot ==
    wait.pc = "wait_ret" =>
        wait.err = IF wait.n = 0 THEN NilError
                   ELSE NewError(joinLoop(C27_FailuresAtStats, 1, <<>>))

\* ----------------------------------------------------------------- C28
\* The outcome of a unit is recorded by this step.
C28_OutcomeRecorded ==
    \/ successCount' = successCount + 1 /\ errors' = errors
    \/ successCount' = successCount /\ Len(errors') = Len(errors) + 1

\* Every step of unit u out of its task body, and every later one, is the
\* next of: outcome recorded, pending count decremented, token released.
C28_UnitOrder(u) ==
    /\ (units[u].st = "body" /\ units'[u].st # "body") =>
           /\ units'[u].st = "recorded"
           /\ C28_OutcomeRecorded
           /\ wg' = wg /\ semaphore' = semaphore
    /\ (units[u].st = "recorded" /\ units'[u].st # "recorded") =>
           /\ units'[u].st = IF Concurrent = 0 THEN "finished" ELSE "wgdone"
           /\ wg' = wg - 1
           /\ successCount' = successCount /\ errors' = errors
           /\ semaphore' = semaphore
    /\ (units[u].st = "wgdone" /\ units'[u].st # "wgdone") =>
           /\ units'[u].st = "finished"
           /\ semaphore'.len = semaphore.len - 1
           /\ successCount' = successCount /\ errors' = errors
           /\ wg' = wg
    /\ units[u].st = "finished" => units'[u].st = "finished"

\* The counters move only by those steps.
C28_OnlyBySteps ==
    /\ (successCount' # successCount \/ errors' # errors) =>
           \E u \in UnitIds : units[u].st = "body" /\ units'[u].st = "recorded"
    /\ wg' < wg =>
           \E u \in UnitIds : units[u].st = "recorded" /\ units'[u].st # "recorded"
    /\ semaphore'.len < semaphore.len =>
           \E u \in UnitIds : units[u].st = "wgdone" /\ units'[u].st = "finished"

\* With a pending count of 0, every unit that was added to it has its
\* outcome recorded.
C28_NoneUnrecorded ==
    wg = 0 => \A u \in UnitIds :
                  units[u].st \notin {"go_launch", "go_spawn", "spawned", "body"}

\* Wait has returned and a unit still holds its token.
C28_Witness ==
    /\ wait.pc = "wait_ret"
    /\ semaphore.len > 0
    /\ \E u \in UnitIds : At(u, "wgdone")

\* C28: for every unit the steps occur in the order task body ends,
\* outcome recorded, pending count decremented, gate token released; hence
\* whenever the pending count is 0 no unit counted in it has an unrecorded
\* outcome, and a token still held when Wait has returned is always
\* released afterwards.
C28_RecordDoneRelease ==
    /\ [][C28_OnlyBySteps /\ \A u \in UnitIds : C28_UnitOrder(u)]_vars
    /\ [](C28_NoneUnrecorded)
    /\ (C28_Witness ~> semaphore.len = 0)

\* ----------------------------------------------------------------- C29
\* No goroutine is between g.addTotalTasks() and g.wg.Add(1), and none
\* between recording an outcome and g.wg.Done().
C29_NoneBetween ==
    \A u \in UnitIds : units[u].st \notin {"go_wgAdd", "recorded"}

\* C29: in every reachable state successCount + len(errors) <= totalTasks,
\* and whenever no goroutine is between incrementing totalTasks and
\* incrementing the pending count, or between recording an outcome and
\* decrementing the pending count, the pending count equals
\* totalTasks - successCount - len(errors).
C29_PendingIsTotalMinusRecorded ==
    /\ successCount + Len(errors) <= totalTasks
    /\ C29_NoneBetween => wg = totalTasks - successCount - Len(errors)

\* One unit recorded and done, another still pending, none in between.
C29_Witness ==
    /\ C29_NoneBetween
    /\ successCount + Len(errors) >= 1
    /\ wg >= 1
    /\ totalTasks >= 2

\* ----------------------------------------------------------------- C30
\* Every Go call had returned when the Wait call that has now returned
\* began, and no Go call was made since.
C30_WaitFollowedAllGo ==
    /\ AllowSomeFail
    /\ wait.pc = "wait_ret"
    /\ wait.seen = UnitIds

\* C30: when goroutines call Go concurrently on one Group with
\* AllowSomeFail = true and any Concurrent >= 0, no counter update is
\* lost: after all Go calls have returned and a following Wait returns,
\* totalTasks is the number of Go calls, successCount + len(errors) is
\* totalTasks, and successCount is the number of units that returned nil.
C30_NoLostUpdate ==
    C30_WaitFollowedAllGo =>
        /\ totalTasks = Len(units)
        /\ successCount + Len(errors) = totalTasks
        /\ successCount = Cardinality({u \in UnitIds : units[u].kind = "ok"})
        /\ wait.sc = successCount

\* Two units that failed, the later call's failure recorded first, and a
\* Wait after both Go calls.
C30_Witness ==
    /\ C30_WaitFollowedAllGo
    /\ Len(errors) >= 2
    /\ errors[1].id > errors[2].id

\* ======================================= utils.Chunk, statement by statement
\* Any integer may be passed as size.
Sizes == (0 - MaxSize)..MaxSize

\* result is followed up to this many chunks; a longer one is kept at this
\* length (no call with size >= 1 returns more than MaxLen chunks).
MaxChunks == MaxLen + 1

AppendChunk(result, c) ==
    IF Len(result) < MaxChunks THEN Append(result, c) ELSE result

\* data[lo:hi] panics unless 0 <= lo <= hi <= cap(data).
SliceInRange(data, lo, hi) == 0 <= lo /\ lo <= hi /\ hi <= Len(data)

ChunkRunInit ==
    /\ GroupIdle
    /\ LoggerIdle
    /\ CacheIdle
    /\ CallbackIdle
    /\ OnceErrIdle
    /\ chunkIn \in [data : SlicesUpTo(MaxLen), size : Sizes]
    /\ chunkOut = NoChunkResult
    /\ chunkRun = [NoChunkRun EXCEPT !.pc = "entry"]

\* if len(data) <= size { return [][]T{data} }
\* result := make([][]T, 0, len(data)/8); i := 0
ChunkEnter ==
    /\ chunkRun.pc = "entry"
    /\ chunkRun' = IF Len(chunkIn.data) <= chunkIn.size
                     THEN [pc |-> "returned", i |-> 0, result |-> <<chunkIn.data>>]
                     ELSE [pc |-> "loop", i |-> 0, result |-> <<>>]
    /\ UNCHANGED <<chunkIn, chunkOut, notChunk>>

\* One pass of the loop body, then i += size.
ChunkIter ==
    /\ chunkRun.pc = "loop"
    /\ chunkRun.i < Len(chunkIn.data)
    /\ LET i == chunkRun.i
           size == chunkIn.size
           data == chunkIn.data
           hi == IF i + size <= Len(data) - 1 THEN i + size ELSE Len(data)
       IN  chunkRun' =
               IF SliceInRange(data, i, hi)
                   THEN [pc |-> "loop", i |-> i + size,
                         result |-> AppendChunk(chunkRun.result, Slice(data, i, hi))]
                   ELSE [chunkRun EXCEPT !.pc = "panicked"]
    /\ UNCHANGED <<chunkIn, chunkOut, notChunk>>

\* i < len(data) is false: return result
ChunkExit ==
    /\ chunkRun.pc = "loop"
    /\ ~(chunkRun.i < Len(chunkIn.data))
    /\ chunkRun' = [chunkRun EXCEPT !.pc = "returned"]
    /\ UNCHANGED <<chunkIn, chunkOut, notChunk>>

ChunkRunNext ==
    \/ ChunkEnter
    \/ ChunkIter
    \/ ChunkExit

\* The goroutine that called Chunk keeps running.
ChunkRunSpec == ChunkRunInit /\ [][ChunkRunNext]_vars /\ WF_vars(ChunkRunNext)

\* ----------------------------------------------------------------- C36
\* C36: Chunk(data, size) terminates and returns without panicking for
\* every slice data and every integer size, including size = 0 and
\* size < 0 with non-empty data.
C36_ChunkReturns == <>(chunkRun.pc = "returned")

\* For size >= 1 the call does not panic and returns what Chunk computes.
ChunkRunAgrees ==
    /\ chunkIn.size >= 1 => chunkRun.pc # "panicked"
    /\ (chunkIn.size >= 1 /\ chunkRun.pc = "returned") =>
           chunkRun.result = Chunk(chunkIn.data, chunkIn.size)

\* ============================================ gtask, Go called by a task
\* The Go calls made by the task body of unit p.
Children(p) == {c \in UnitIds : units[c].parent = p}

\* The units submitted by the goroutine that owns the Group.
TopLevel == {u \in UnitIds : units[u].parent = 0}

\* That goroutine calls Go some number of times and then Wait.
NestStartGo ==
    /\ Len(units) < MaxUnits
    /\ \A u \in TopLevel : units[u].st \notin GoCallSt
    /\ wait.pc = "idle"
    /\ \E k \in Kinds : StartGo(k)

NestStartWait ==
    /\ \A u \in TopLevel : units[u].st \notin GoCallSt
    /\ wait.pc = "idle"
    /\ StartWait

\* The task body of unit p calls g.Go(task) on its own Group.
NestGo(p) ==
    /\ At(p, "body")
    /\ units[p].parent = 0
    /\ Children(p) = {}
    /\ Len(units) < MaxUnits
    /\ \E k \in Kinds :
           units' = Append(units, [kind |-> k, st |-> "go_once",
                                   sawFail |-> Len(errors) > 0,
                                   msg |-> DefaultMsg(k), runs |-> 0,
                                   parent |-> p])
    /\ UNCHANGED <<group, config, lib, wait>>

\* The task body ends once the Go call it made, if any, has returned.
NestRecord(u) ==
    /\ \A c \in Children(u) : units[c].st \notin GoCallSt
    /\ Record(u)

NestUnitStep(u) ==
    \/ Invoke(u)
    \/ NestRecord(u)
    \/ WgDone(u)
    \/ Release(u)

NestNext ==
    \/ NestStartGo
    \/ NestStartWait
    \/ \E p \in 1..MaxUnits : NestGo(p)
    \/ \E u \in 1..MaxUnits : GoStep(u)
    \/ \E u \in 1..MaxUnits : NestUnitStep(u)
    \/ WaitStep

\* The Go scheduler runs every goroutine that can take a step.
NestFairness ==
    /\ \A u \in 1..MaxUnits : WF_vars(GoStep(u)) /\ WF_vars(NestUnitStep(u))
    /\ WF_vars(WaitStep)

NestSpec == Init /\ [][NestNext]_vars /\ NestFairness

\* Unit u was submitted by a task body.
CalledByTask(u) == u \in UnitIds /\ units[u].parent # 0

\* The Go call that submitted unit u has returned.
GoReturned(u) == u \in UnitIds /\ units[u].st \notin GoCallSt

\* ----------------------------------------------------------------- C31
\* C31: with Concurrent = C > 0, a Go call made from inside a running unit
\* of the same Group always eventually returns, and the outer Wait
\* eventually returns, also when all C tokens are held by units that are
\* themselves calling Go.
C31_NestedGoReturns ==
    /\ \A u \in 1..MaxUnits :
           [](CalledByTask(u) /\ Concurrent > 0 => <>GoReturned(u))
    /\ ((Concurrent > 0 /\ wait.pc = "wait_wg") ~> wait.pc = "wait_ret")

\* Without a bound on the running units the nested call does return.
NestedGoUnboundedReturns ==
    /\ \A u \in 1..MaxUnits :
           [](CalledByTask(u) /\ Concurrent = 0 => <>GoReturned(u))
    /\ ((Concurrent = 0 /\ wait.pc = "wait_wg") ~> wait.pc = "wait_ret")

\* ----------------------------------------------------------------- C32
\* C32: for a Group configured with a negative Concurrent, Go returns for
\* every submitted unit and a following Wait returns once the units have
\* finished.
C32_NegativeBoundDoesNotBlock ==
    /\ \A u \in 1..MaxUnits :
           []((Concurrent < 0 /\ u \in UnitIds) => <>GoReturned(u))
    /\ ((Concurrent < 0 /\ wait.pc = "wait_wg") ~> wait.pc = "wait_ret")

\* ================================= logger.NewLogger, the close function
MaxCloseCalls == 2     \* calls of the close function by the program

CloseIds == 1..Len(closeCalls)
ClAt(c, s) == c \in CloseIds /\ closeCalls[c].pc = s

\* closeFns = append(closeFns, writer.Close): the writer's Close returns
\* nil or an error.
NewCloser(fails) == [fails |-> fails, st |-> "idle", runs |-> 0]

\* NewLogger has returned (l, closeWritersFunc, nil).
CloseInit ==
    /\ GroupIdle
    /\ CacheIdle
    /\ CallbackIdle
    /\ OnceErrIdle
    /\ ChunkIdle
    /\ HandlerIdle
    /\ MultiIdle
    /\ ctx \in {"nil", "live"}
    /\ \E fails \in BOOLEAN : closeFns = <<NewCloser(fails)>>
    /\ closeOnce = "new"
    /\ closeErr = NilError
    /\ closeCalls = <<>>

NewCloseCall(who) ==
    [who |-> who, pc |-> "do", idx |-> 1, builder |-> <<>>, ret |-> NilError]

\* A goroutine of the program calls the close function.
StartClose ==
    /\ Cardinality({c \in CloseIds : closeCalls[c].who = "caller"}) < MaxCloseCalls
    /\ closeCalls' = Append(closeCalls, NewCloseCall("caller"))
    /\ UNCHANGED <<ctx, closeFns, closeOnce, closeErr, notClose>>

\* The context is cancelled.
CtxCancel ==
    /\ ctx = "live"
    /\ ctx' = "cancelled"
    /\ UNCHANGED <<closeFns, closeOnce, closeErr, closeCalls, notClose>>

\* go func() { <-ctx.Done(); closeWritersFunc() }()
CtxClose ==
    /\ ctx = "cancelled"
    /\ \A c \in CloseIds : closeCalls[c].who # "ctx"
    /\ closeCalls' = Append(closeCalls, NewCloseCall("ctx"))
    /\ UNCHANGED <<ctx, closeFns, closeOnce, closeErr, notClose>>

\* Mutant: a flag in place of the sync.Once: a call that finds the close
\* run begun does not wait for it.
CloseDoNoWait(c) ==
    /\ ClAt(c, "do")
    /\ IF closeOnce = "new"
         THEN /\ closeOnce' = "running"
              /\ closeCalls' = [closeCalls EXCEPT ![c].pc = "f"]
         ELSE /\ closeOnce' = closeOnce
              /\ closeCalls' = [closeCalls EXCEPT ![c].pc = "ret"]
    /\ UNCHANGED <<ctx, closeFns, closeErr, notClose>>

\* closeOnce.Do(func() {...}): the first call runs the function, a call
\* made while it runs blocks until it has returned, a later one skips it.
CloseDo(c) ==
    /\ ClAt(c, "do")
    /\ closeOnce # "running"
    /\ IF closeOnce = "new"
         THEN /\ closeOnce' = "running"
              /\ closeCalls' = [closeCalls EXCEPT ![c].pc = "f"]
         ELSE /\ closeOnce' = closeOnce
              /\ closeCalls' = [closeCalls EXCEPT ![c].pc = "ret"]
    /\ UNCHANGED <<ctx, closeFns, closeErr, notClose>>

\* for idx, fn := range closeFns { e := fn() ...: fn is called.
CloseFnCall(c) ==
    /\ ClAt(c, "f")
    /\ closeCalls[c].idx <= Len(closeFns)
    /\ closeFns' = [closeFns EXCEPT ![closeCalls[c].idx].st = "running",
                                    ![closeCalls[c].idx].runs = @ + 1]
    /\ closeCalls' = [closeCalls EXCEPT ![c].pc = "fn"]
    /\ UNCHANGED <<ctx, closeOnce, closeErr, notClose>>

\* fn returns: if e != nil { builder.WriteString(...) }
CloseFnRet(c) ==
    /\ ClAt(c, "fn")
    /\ LET idx == closeCalls[c].idx
       IN  /\ closeFns' = [closeFns EXCEPT ![idx].st = "returned"]
           /\ closeCalls' = [closeCalls EXCEPT
                  ![c].pc = "f",
                  ![c].idx = idx + 1,
                  ![c].builder = IF closeFns[idx].fails THEN Append(@, idx)
                                 ELSE @]
    /\ UNCHANGED <<ctx, closeOnce, closeErr, notClose>>

\* if builder.Len() > 0 { closeErr = fmt.Errorf(...) }; the function
\* given to Do returns.
CloseFEnd(c) ==
    /\ ClAt(c, "f")
    /\ closeCalls[c].idx > Len(closeFns)
    /\ closeErr' = IF Len(closeCalls[c].builder) > 0
                     THEN NewError(closeCalls[c].builder)
                     ELSE closeErr
    /\ closeOnce' = "done"
    /\ closeCalls' = [closeCalls EXCEPT ![c].pc = "ret"]
    /\ UNCHANGED <<ctx, closeFns, notClose>>

\* return closeErr
CloseReturn(c) ==
    /\ ClAt(c, "ret")
    /\ closeCalls' = [closeCalls EXCEPT ![c].pc = "returned", ![c].ret = closeErr]
    /\ UNCHANGED <<ctx, closeFns, closeOnce, closeErr, notClose>>

CloseStep(c) ==
    \/ CloseDo(c)
    \/ CloseFnCall(c)
    \/ CloseFnRet(c)
    \/ CloseFEnd(c)
    \/ CloseReturn(c)

CloseNext ==
    \/ StartClose
    \/ CtxCancel
    \/ CtxClose
    \/ \E c \in 1..(MaxCloseCalls + 1) : CloseStep(c)

CloseSpec == CloseInit /\ [][CloseNext]_vars

\* ----------------------------------------------------------------- C33
\* C33: the close function returned by NewLogger runs the registered
\* closers at most once in total, however many times it is called, from
\* however many goroutines, and whether or not the context is also
\* cancelled; every call returns the same error value, and no call returns
\* before the single close run has finished.
C33_ClosedOnce ==
    /\ \A i \in 1..Len(closeFns) : closeFns[i].runs <= 1
    /\ \A c \in CloseIds : closeCalls[c].pc = "returned" =>
           /\ \A i \in 1..Len(closeFns) :
                  closeFns[i].st = "returned" /\ closeFns[i].runs = 1
           /\ closeOnce = "done"
           /\ closeCalls[c].ret = closeErr
           /\ closeCalls[c].ret.isNil = (\A i \in 1..Len(closeFns) : ~closeFns[i].fails)

\* The program's calls and the call made on cancellation have all
\* returned the error of the one close run.
C33_Witness ==
    /\ ctx = "cancelled"
    /\ Len(closeCalls) = MaxCloseCalls + 1
    /\ \A c \in CloseIds : closeCalls[c].pc = "returned" /\ ~closeCalls[c].ret.isNil
    /\ closeCalls[1].who = "ctx"

\* ============================ handler.DefaultHandler, handler.StdHandler
MaxHandlers == 2       \* handlers on the one writer
MaxHandleCalls == 2    \* Handle calls

HandlerIds == 1..Len(hs)
HandleIds == 1..Len(hcalls)
HAt(c, s) == c \in HandleIds /\ hcalls[c].pc = s

\* NewDefaultHandler(w, level), NewStdHandler(w, level): one handler on
\* the writer, its mu unlocked.
HandlerInit ==
    /\ GroupIdle
    /\ CacheIdle
    /\ CallbackIdle
    /\ OnceErrIdle
    /\ ChunkIdle
    /\ CloseIdle
    /\ MultiIdle
    /\ hs = <<[parent |-> 0]>>
    /\ hmu = <<0>>
    /\ hcalls = <<>>

\* h.WithAttrs(attrs), h.WithGroup(name): a new handler struct with the
\* same w; its mu field is not set, so it is a new, unlocked mutex.
WithAttrsOrGroup(h) ==
    /\ h \in HandlerIds
    /\ Len(hs) < MaxHandlers
    /\ hs' = Append(hs, [parent |-> h])
    /\ hmu' = Append(hmu, 0)
    /\ UNCHANGED <<hcalls, notHandler>>

\* A goroutine calls h.Handle(ctx, r).
StartHandle(h) ==
    /\ h \in HandlerIds
    /\ Len(hcalls) < MaxHandleCalls
    /\ hcalls' = Append(hcalls, [h |-> h, pc |-> "format"])
    /\ UNCHANGED <<hs, hmu, notHandler>>

\* The record is formatted into a buffer of the call's own.
HandleFormat(c) ==
    /\ HAt(c, "format")
    /\ hcalls' = [hcalls EXCEPT ![c].pc = "lock"]
    /\ UNCHANGED <<hs, hmu, notHandler>>

\* h.mu.Lock(), then h.w.Write(buf.Bytes()) begins.
HandleLock(c) ==
    /\ HAt(c, "lock")
    /\ hmu[hcalls[c].h] = 0
    /\ hmu' = [hmu EXCEPT ![hcalls[c].h] = c]
    /\ hcalls' = [hcalls EXCEPT ![c].pc = "write"]
    /\ UNCHANGED <<hs, notHandler>>

\* h.w.Write returns.
HandleWritten(c) ==
    /\ HAt(c, "write")
    /\ hcalls' = [hcalls EXCEPT ![c].pc = "unlock"]
    /\ UNCHANGED <<hs, hmu, notHandler>>

\* defer h.mu.Unlock(); return err
HandleUnlock(c) ==
    /\ HAt(c, "unlock")
    /\ hmu' = [hmu EXCEPT ![hcalls[c].h] = 0]
    /\ hcalls' = [hcalls EXCEPT ![c].pc = "done"]
    /\ UNCHANGED <<hs, notHandler>>

HandleStep(c) ==
    \/ HandleFormat(c)
    \/ HandleLock(c)
    \/ HandleWritten(c)
    \/ HandleUnlock(c)

HandlerNext ==
    \/ \E h \in 1..MaxHandlers : WithAttrsOrGroup(h)
    \/ \E h \in 1..MaxHandlers : StartHandle(h)
    \/ \E c \in 1..MaxHandleCalls : HandleStep(c)

HandlerSpec == HandlerInit /\ [][HandlerNext]_vars

\* ----------------------------------------------------------------- C34
\* The Handle calls that are inside h.w.Write.
Writing == {c \in HandleIds : hcalls[c].pc = "write"}

\* C34: writes to the shared io.Writer made by concurrent Handle calls
\* never overlap, both for calls on one handler and for calls on handlers
\* derived from it through WithAttrs or WithGroup.
C34_WritesExclusive == Cardinality(Writing) <= 1

\* Writes by calls on one and the same handler do not overlap.
SameHandlerExclusive ==
    \A c, d \in Writing : hcalls[c].h = hcalls[d].h => c = d

\* ================================================= handler.MultiHandler
MaxChildren == 3       \* handlers given to NewMultiHandler

\* A child handler: whether Enabled(ctx, r.Level) holds, and whether its
\* Handle returns an error.
ChildHandlers == [enabled : BOOLEAN, fails : BOOLEAN]

\* for _, handler := range h.handlers { ... }; return nil
RECURSIVE MultiHandleLoop(_, _, _)
MultiHandleLoop(handlers, i, delivered) ==
    IF i > Len(handlers) THEN [done |-> TRUE, delivered |-> delivered, err |-> 0]
    ELSE IF handlers[i].enabled
        THEN IF handlers[i].fails
                 THEN [done |-> TRUE, delivered |-> Append(delivered, i), err |-> i]
                 ELSE MultiHandleLoop(handlers, i + 1, Append(delivered, i))
        ELSE MultiHandleLoop(handlers, i + 1, delivered)

\* NewMultiHandler(handlers...)
MultiInit ==
    /\ GroupIdle
    /\ CacheIdle
    /\ CallbackIdle
    /\ OnceErrIdle
    /\ ChunkIdle
    /\ CloseIdle
    /\ HandlerIdle
    /\ mhIn \in UNION {[1..n -> ChildHandlers] : n \in 0..MaxChildren}
    /\ mhOut = NoMultiResult

\* func (h *MultiHandler) Handle(ctx, r) error
MultiHandle ==
    /\ ~mhOut.done
    /\ mhOut' = MultiHandleLoop(mhIn, 1, <<>>)
    /\ UNCHANGED <<mhIn, notMulti>>

MultiSpec == MultiInit /\ [][MultiHandle]_vars

\* ----------------------------------------------------------------- C35
\* The enabled children among the first n, in registration order.
RECURSIVE EnabledUpTo(_)
EnabledUpTo(n) ==
    IF n = 0 THEN <<>>
    ELSE IF mhIn[n].enabled THEN Append(EnabledUpTo(n - 1), n)
    ELSE EnabledUpTo(n - 1)

\* C35: handler.MultiHandler.Handle delivers the record to every child
\* handler that is enabled for the record's level and to no disabled
\* child, in registration order, also when an earlier child returns an
\* error; it returns a non-nil error if and only if some child returned
\* one.
C35_DeliveredToAllEnabled ==
    mhOut.done =>
        /\ mhOut.delivered = EnabledUpTo(Len(mhIn))
        /\ mhOut.err # 0 <=>
               \E j \in 1..Len(mhOut.delivered) : mhIn[mhOut.delivered[j]].fails

\* What does hold: the record goes, in registration order, to the enabled
\* children up to and including the first one that returns an error, and
\* that error is returned.
DeliveredUpToFirstError ==
    mhOut.done =>
        LET failing == {i \in 1..Len(mhIn) : mhIn[i].enabled /\ mhIn[i].fails}
            first == IF failing = {} THEN Len(mhIn)
                     ELSE CHOOSE i \in failing : \A j \in failing : i <= j
        IN  /\ mhOut.delivered = EnabledUpTo(first)
            /\ mhOut.err = IF failing = {} THEN 0 ELSE first
====
